---- MODULE Spec2Model ----
(***************************************************************************)
(* pyamlboot: the ADNL burn session of adnl.py (do_adnl_burn and the       *)
(* stages it drives) as a sequential state machine talking to a            *)
(* nondeterministic USB bus and device.                                    *)
(*                                                                         *)
(* Numbers: TLC integers are 32-bit signed, so an unsigned 32-bit value    *)
(* (a burnsteps code, an addsum) is kept as its two 16-bit halves          *)
(* [hi, lo]; sizes and offsets stay plain integers below 2^31.             *)
(* Bytes are integers 0..255; a message is a sequence of bytes.            *)
(***************************************************************************)
EXTENDS Integers, Sequences, FiniteSets, TLC

(***************************************************************************)
(* Bounds of the exploration.                                              *)
(***************************************************************************)
\* non-terminating CBWs the device may issue in one SPL phase
MaxCbw == 2
\* DATAOUT requests the device may issue for one partition
MaxDataout == 1
\* polls of one wait_for_device call that the bus may answer with nothing new
MaxPolls == 3
\* INFO replies the device may give to one "oem verify"
MaxInfo == 2

(***************************************************************************)
(* Program constants.                                                      *)
(***************************************************************************)
ADNL_REPLY_OKAY == <<79, 75, 65, 89>>
ADNL_REPLY_FAIL == <<70, 65, 73, 76>>
ADNL_REPLY_INFO == <<73, 78, 70, 79>>
ADNL_REPLY_DATA == <<68, 65, 84, 65>>

USB_BULK_SIZE == 16384

BOOTROM_BURNSTEPS_0 == [hi |-> 49156, lo |-> 0]
BOOTROM_BURNSTEPS_1 == [hi |-> 49156, lo |-> 1]
BOOTROM_BURNSTEPS_2 == [hi |-> 49156, lo |-> 2]
BOOTROM_BURNSTEPS_3 == [hi |-> 49156, lo |-> 3]

TPL_BURNSTEPS_0 == [hi |-> 49156, lo |-> 4144]
TPL_BURNSTEPS_1 == [hi |-> 49156, lo |-> 4145]
TPL_BURNSTEPS_2 == [hi |-> 49156, lo |-> 4146]

\* class Stage(IntEnum): wire code of each stage
Stage == [ROM |-> 0, SPL |-> 8, TPL |-> 16]
\* class SocFamily(IntEnum)
SocFamily == [A1 |-> 44, C1 |-> 48, SC2 |-> 50, C2 |-> 51,
              T5 |-> 52, T5D |-> 53, T7 |-> 54, S4 |-> 55]
\* class FeatSecurebootMask(IntEnum)
FeatSecurebootMask == [A1 |-> 1, C1 |-> 1, C2 |-> 1, T5 |-> 16, T5D |-> 16]

(***************************************************************************)
(* Bytes, integers and text.                                               *)
(***************************************************************************)
\* s[a:b] of Python, 0-based and clamped to the sequence
Slice(s, a, b) ==
    LET lo == IF a < Len(s) THEN a ELSE Len(s)
        hi == IF b < Len(s) THEN b ELSE Len(s)
    IN  IF hi <= lo THEN <<>> ELSE SubSeq(s, lo + 1, hi)

\* int.from_bytes(s, 'little') for at most 4 bytes (top byte below 128 here)
RECURSIVE from_bytes(_)
from_bytes(s) ==
    IF s = <<>> THEN 0 ELSE s[1] + 256 * from_bytes(Tail(s))

\* n.to_bytes(4, 'little') / [(n >> i) & 0xff for i in range(0, 32, 8)]
\* of a value kept as 16-bit halves; hi may have grown past 16 bits
to_bytes(u) ==
    <<u.lo % 256, (u.lo \div 256) % 256, u.hi % 256, (u.hi \div 256) % 256>>

\* a & b on non-negative integers
RECURSIVE BitAnd(_, _)
BitAnd(a, b) ==
    IF a = 0 \/ b = 0 THEN 0
    ELSE (a % 2) * (b % 2) + 2 * BitAnd(a \div 2, b \div 2)

\* ASCII code of the hex digit d (lower case, as '%x' prints)
HexChar(d) == IF d < 10 THEN 48 + d ELSE 87 + d
\* ASCII code of the decimal digit d
DecChar(d) == 48 + d

\* '{:x}'.format(n): the hex digits of n, no padding
RECURSIVE HexStr(_)
HexStr(n) ==
    IF n < 0 THEN <<45>> \o HexStr(0 - n)
    ELSE IF n < 16 THEN <<HexChar(n)>>
    ELSE Append(HexStr(n \div 16), HexChar(n % 16))

\* s left-padded with '0' to at least w characters
RECURSIVE ZeroPad(_, _)
ZeroPad(s, w) == IF Len(s) >= w THEN s ELSE ZeroPad(<<48>> \o s, w)

\* '{:08x}'.format(n): the sign, when there is one, counts in the width
Hex08(n) ==
    IF n < 0 THEN <<45>> \o ZeroPad(HexStr(0 - n), 7) ELSE ZeroPad(HexStr(n), 8)

\* hex(u) of a value kept as 16-bit halves: '0x' and the digits, no padding
HexU32(u) ==
    <<48, 120>> \o (IF u.hi = 0 THEN HexStr(u.lo)
                    ELSE HexStr(u.hi) \o ZeroPad(HexStr(u.lo), 4))

\* str(n) of a non-negative integer
RECURSIVE DecStr(_)
DecStr(n) ==
    IF n < 10 THEN <<DecChar(n)>>
    ELSE Append(DecStr(n \div 10), DecChar(n % 10))

\* value of an ASCII hex digit, -1 when the byte is none
HexVal(c) ==
    IF c >= 48 /\ c <= 57 THEN c - 48
    ELSE IF c >= 97 /\ c <= 102 THEN c - 87
    ELSE IF c >= 65 /\ c <= 70 THEN c - 55
    ELSE -1

\* every byte of s is a digit of the base
AllDigits(s, base) ==
    \A i \in 1..Len(s) : HexVal(s[i]) >= 0 /\ HexVal(s[i]) < base

RECURSIVE DigitsValue(_, _)
DigitsValue(s, base) ==
    IF s = <<>> THEN 0
    ELSE base * DigitsValue(SubSeq(s, 1, Len(s) - 1), base) + HexVal(s[Len(s)])

\* Py_ISSPACE: the white space int() skips before and after a number
AsciiSpace == {9, 10, 11, 12, 13, 32}

\* the characters from 127 on that are white space to str (Py_UNICODE_ISSPACE)
UnicodeSpace ==
    {133, 160, 5760} \cup (8192..8202) \cup {8232, 8233, 8239, 8287, 12288}

\* the digit zero of every run of ten decimal digits (category Nd) past ASCII
DecimalZeros ==
    {1632, 1776, 1984, 2406, 2534, 2662, 2790, 2918, 3046, 3174, 3302, 3430,
     3558, 3664, 3792, 3872, 4160, 4240, 6112, 6160, 6470, 6608, 6784, 6800,
     6992, 7088, 7232, 7248, 42528, 43216, 43264, 43472, 43504, 43600, 44016,
     65296, 66720, 68912, 69734, 69872, 69942, 70096, 70384, 70736, 70864,
     71248, 71360, 71472, 71904, 72016, 72784, 73040, 73120, 92768, 92864,
     93008, 120782, 120792, 120802, 120812, 120822, 123200, 123632, 125264,
     130032}

\* what int() makes of one character of a str before it parses: white
\* space becomes ' ', a decimal digit its ASCII digit, and any other
\* character from 127 on '?', which no number holds
ToAscii(c) ==
    IF c < 127 THEN c
    ELSE IF c \in UnicodeSpace THEN 32
    ELSE IF \E z \in DecimalZeros : c - z \in 0..9
    THEN 48 + (c - (CHOOSE z \in DecimalZeros : c - z \in 0..9))
    ELSE 63

\* int(s, base) for base 0 or 16, of a str (text) or of bytes: [ok, val];
\* ok is FALSE where Python raises ValueError.  White space around the
\* number is skipped (Spaces, Strip); a sign may lead (Signed); '0x' may
\* lead in base 16, and in base 0 '0x', '0o' or '0b' name the base (Radix);
\* one underscore may stand after the prefix (Body) and between two digits;
\* in base 0 a decimal number with a leading zero (old) is an error unless
\* it is zero (Number).  val is exact below 2^31.  Each step hands its
\* result on as a value, CHOOSE r \in {F(x) : x \in {e}} : TRUE being F(e).
PyLong_FromString(s, base, text) ==
    LET IsDigit(c) == c # 95
        Number(neg, old, radix, body, digits) ==
            IF /\ body # <<>>
               /\ body[1] # 95 /\ body[Len(body)] # 95
               /\ \A i \in 1..(Len(body) - 1) : ~(body[i] = 95 /\ body[i + 1] = 95)
               /\ AllDigits(digits, radix)
               /\ (old /\ digits[1] = 48) => \A i \in 1..Len(digits) : digits[i] = 48
            THEN [ok |-> TRUE,
                  val |-> IF neg THEN 0 - DigitsValue(digits, radix)
                          ELSE DigitsValue(digits, radix)]
            ELSE [ok |-> FALSE, val |-> 0]
        Digits(neg, old, radix, body) ==
            CHOOSE r \in {Number(neg, old, radix, body, digits) :
                            digits \in {SelectSeq(body, IsDigit)}} : TRUE
        Body(neg, old, radix, prefixed, num) ==
            CHOOSE r \in {Digits(neg, old, radix, body) :
                            body \in {IF ~prefixed THEN num
                                      ELSE IF Len(num) >= 3 /\ num[3] = 95
                                      THEN SubSeq(num, 4, Len(num))
                                      ELSE SubSeq(num, 3, Len(num))}} : TRUE
        Radix(neg, letter, num) ==
            IF base = 16 THEN Body(neg, FALSE, 16, letter \in {120, 88}, num)
            ELSE IF letter \in {120, 88} THEN Body(neg, FALSE, 16, TRUE, num)
            ELSE IF letter \in {111, 79} THEN Body(neg, FALSE, 8, TRUE, num)
            ELSE IF letter \in {98, 66} THEN Body(neg, FALSE, 2, TRUE, num)
            ELSE Body(neg, TRUE, 10, FALSE, num)
        Signed(core) ==
            CHOOSE r \in {Radix(core # <<>> /\ core[1] = 45,
                                IF Len(num) >= 2 /\ num[1] = 48 THEN num[2] ELSE 0,
                                num) :
                            num \in {IF core # <<>> /\ core[1] \in {43, 45}
                                     THEN Tail(core) ELSE core}} : TRUE
        Strip(t, solid) ==
            CHOOSE r \in {Signed(core) :
                            core \in {IF solid = {} THEN <<>>
                                      ELSE SubSeq(t,
                                        CHOOSE i \in solid : \A j \in solid : i <= j,
                                        CHOOSE i \in solid : \A j \in solid : i >= j)}} :
                TRUE
        Spaces(t) ==
            CHOOSE r \in {Strip(t, solid) :
                            solid \in {{i \in 1..Len(t) : t[i] \notin AsciiSpace}}} :
                TRUE
    IN  CHOOSE r \in {Spaces(t) :
                        t \in {<<>> \o [i \in 1..Len(s) |->
                                          IF text THEN ToAscii(s[i]) ELSE s[i]]}} :
            TRUE

\* int(s, 16) of a str
ParseHex(s) == PyLong_FromString(s, 16, TRUE)

\* int(s, 0) of bytes
ParseInt0(s) == PyLong_FromString(s, 0, FALSE)

(***************************************************************************)
(* Results of a call: err is "" on a normal return and the exception's     *)
(* class when the call raises.                                             *)
(***************************************************************************)
NoError == ""

\* bytes.decode(): [err, text], text being the code points of the UTF-8
\* bytes b; err is "UnicodeDecodeError" where b is not UTF-8: a byte that
\* can lead no character, a character cut short or missing a continuation
\* byte, an overlong form, a surrogate, or a code point past 0x10FFFF
decode(b) ==
    LET n == Len(b)
        leads == {i \in 1..n : b[i] \notin 128..191}
        need(i) == IF b[i] < 128 THEN 0
                   ELSE IF b[i] \in 194..223 THEN 1
                   ELSE IF b[i] \in 224..239 THEN 2
                   ELSE IF b[i] \in 240..244 THEN 3
                   ELSE 0 - 1
        second(i) == IF b[i] = 224 THEN 160..191
                     ELSE IF b[i] = 237 THEN 128..159
                     ELSE IF b[i] = 240 THEN 144..191
                     ELSE IF b[i] = 244 THEN 128..143
                     ELSE 128..191
        whole(i) == /\ need(i) >= 0
                    /\ i + need(i) <= n
                    /\ \A k \in 1..need(i) : b[i + k] \in 128..191
                    /\ need(i) > 0 => b[i + 1] \in second(i)
        covered(j) == \E i \in leads : i <= j /\ j <= i + need(i)
        c(i, k) == b[i + k] - 128
        point(i) == IF need(i) = 0 THEN b[i]
                    ELSE IF need(i) = 1 THEN (b[i] - 192) * 64 + c(i, 1)
                    ELSE IF need(i) = 2
                    THEN (b[i] - 224) * 4096 + c(i, 1) * 64 + c(i, 2)
                    ELSE (b[i] - 240) * 262144 + c(i, 1) * 4096
                         + c(i, 2) * 64 + c(i, 3)
        nth(k) == CHOOSE i \in leads : Cardinality({j \in leads : j <= i}) = k
    IN  IF (\A i \in leads : whole(i)) /\ (\A j \in 1..n : covered(j))
        THEN [err |-> NoError,
              text |-> <<>> \o [k \in 1..Cardinality(leads) |-> point(nth(k))]]
        ELSE [err |-> "UnicodeDecodeError", text |-> <<>>]

\* position of the first byte c in s, 0 when there is none
RECURSIVE IndexOf(_, _, _)
IndexOf(s, c, i) ==
    IF i > Len(s) THEN 0 ELSE IF s[i] = c THEN i ELSE IndexOf(s, c, i + 1)

\* s.startswith(p)
StartsWith(s, p) == Len(s) >= Len(p) /\ SubSeq(s, 1, Len(p)) = p

(***************************************************************************)
(* Frame codec.                                                            *)
(***************************************************************************)
\* adnl_get_prefix: msg[:4].tobytes().decode(), [err, text]: the first four
\* bytes of the reply (fewer when it is shorter) read as UTF-8
adnl_get_prefix(msg) == decode(Slice(msg, 0, 4))

\* send_cmd after the write and the read: the check of the reply msg
send_cmd(msg, expected_res) ==
    LET header == adnl_get_prefix(msg)
    IN  IF Len(msg) < 4 THEN [err |-> "RuntimeError", msg |-> <<>>]
        ELSE IF header.err # NoError THEN [err |-> header.err, msg |-> <<>>]
        ELSE IF header.text # expected_res
             THEN [err |-> "RuntimeError", msg |-> <<>>]
             ELSE [err |-> NoError, msg |-> msg]

\* Stage(code): the member with that wire code, "" when there is none
StageOf(code) ==
    IF code = Stage.ROM THEN "ROM"
    ELSE IF code = Stage.SPL THEN "SPL"
    ELSE IF code = Stage.TPL THEN "TPL"
    ELSE ""

\* send_cmd_identify on the reply msg to 'getvar:identify'
send_cmd_identify(msg) ==
    LET r == send_cmd(msg, ADNL_REPLY_OKAY)
    IN  IF r.err # NoError THEN [err |-> r.err, stage |-> ""]
        ELSE IF Len(msg) < 5 THEN [err |-> "IndexError", stage |-> ""]
        ELSE IF msg[5] # 5 THEN [err |-> "RuntimeError", stage |-> ""]
        ELSE IF Len(msg) < 8 THEN [err |-> "IndexError", stage |-> ""]
        ELSE IF StageOf(msg[8]) = "" THEN [err |-> "ValueError", stage |-> ""]
        ELSE [err |-> NoError, stage |-> StageOf(msg[8])]

AMLC == <<65, 77, 76, 67>>

\* a slip: the end flag is taken from byte 20, one byte too early
CBW_end_at_20(msg) ==
    LET magic == decode(Slice(msg, 4, 8))
        bad(e) == [err |-> e, seq |-> 0, size |-> 0, offs |-> 0,
                   need_checksum |-> FALSE, end |-> 0]
    IN  IF magic.err # NoError THEN bad(magic.err)
        ELSE IF magic.text # AMLC THEN bad("RuntimeError")
        ELSE IF Len(msg) < 22 THEN bad("IndexError")
        ELSE [err |-> NoError,
              seq |-> from_bytes(Slice(msg, 8, 12)),
              size |-> from_bytes(Slice(msg, 12, 16)),
              offs |-> from_bytes(Slice(msg, 16, 20)),
              need_checksum |-> (from_bytes(Slice(msg, 20, 21)) = 0),
              end |-> msg[21]]

\* class CBW: __init__ on the reply msg to 'getvar:cbw'
CBW(msg) ==
    LET magic == decode(Slice(msg, 4, 8))
        bad(e) == [err |-> e, seq |-> 0, size |-> 0, offs |-> 0,
                   need_checksum |-> FALSE, end |-> 0]
    IN  IF magic.err # NoError THEN bad(magic.err)
        ELSE IF magic.text # AMLC THEN bad("RuntimeError")
        ELSE IF Len(msg) < 22 THEN bad("IndexError")
        ELSE [err |-> NoError,
              seq |-> from_bytes(Slice(msg, 8, 12)),
              size |-> from_bytes(Slice(msg, 12, 16)),
              offs |-> from_bytes(Slice(msg, 16, 20)),
              need_checksum |-> (from_bytes(Slice(msg, 20, 21)) = 0),
              end |-> msg[22]]

(***************************************************************************)
(* The image container (a collaborator of the driver): a catalogue of      *)
(* items in container order, each a read-only byte stream with a cursor.   *)
(***************************************************************************)
\* 'sha1sum ab', the payload of a VERIFY item
VerifyToken == <<115, 104, 97, 49, 115, 117, 109, 32, 97, 98>>

Items ==
    << [main |-> "USB", sub |-> "DDR", size |-> 100],
       [main |-> "USB", sub |-> "DDR_ENC", size |-> 120],
       [main |-> "USB", sub |-> "UBOOT", size |-> 40000],
       [main |-> "USB", sub |-> "UBOOT_ENC", size |-> 40000],
       [main |-> "PARTITION", sub |-> "boot", size |-> 20000],
       [main |-> "VERIFY", sub |-> "boot", size |-> 10],
       [main |-> "PARTITION", sub |-> "data", size |-> 8],
       [main |-> "VERIFY", sub |-> "data", size |-> 10] >>

\* byte k (0-based) of item i
ItemByte(i, k) ==
    IF Items[i].main = "VERIFY" THEN VerifyToken[k + 1]
    ELSE (7 * k + 13 * i + 3) % 256

\* aml_img.item_get(main_type, sub_type): the first such item, 0 if none
item_get(main, sub) ==
    LET hits == {i \in 1..Len(Items) : Items[i].main = main /\ Items[i].sub = sub}
    IN  IF hits = {} THEN 0 ELSE CHOOSE i \in hits : \A j \in hits : i <= j

\* A buffer read from an item is kept as the range of the item it holds.
NoBuf == [item |-> 0, off |-> 0, len |-> 0]

\* item.read(n) with the cursor at p: at most n bytes, fewer at the end
ItemRead(i, p, n) ==
    LET left == IF p < Items[i].size THEN Items[i].size - p ELSE 0
    IN  [item |-> i, off |-> p, len |-> IF n < left THEN n ELSE left]

\* item.read() with the cursor at p: everything up to the end
ItemReadAll(i, p) == ItemRead(i, p, Items[i].size)

\* buf[a:b]
BufSlice(buf, a, b) ==
    LET lo == IF a < buf.len THEN a ELSE buf.len
        hi == IF b < buf.len THEN b ELSE buf.len
    IN  [item |-> buf.item, off |-> buf.off + lo,
         len |-> IF hi <= lo THEN 0 ELSE hi - lo]

\* the bytes of a buffer as a sequence
BufBytes(buf) == [k \in 1..buf.len |-> ItemByte(buf.item, buf.off + k - 1)]

(***************************************************************************)
(* Addsum.                                                                 *)
(***************************************************************************)
\* byte k (0-based) of buf, 0 past its end: the zero padding of the last word
\* A buffer that is not read from an item (item = 0) carries its bytes.
PadByte(buf, k) ==
    IF k >= buf.len THEN 0
    ELSE IF buf.item = 0 THEN buf.bytes[k + 1]
    ELSE ItemByte(buf.item, buf.off + k)

\* the sum of the little-endian words a..b-1 of buf, low and high halves
\* summed apart.  The words are added pairwise (a balanced tree) instead of
\* left to right: the sum is the same and the evaluation stays shallow.
RECURSIVE SumWords(_, _, _)
SumWords(buf, a, b) ==
    IF a >= b THEN [lo |-> 0, hi |-> 0]
    ELSE IF b = a + 1
    THEN [lo |-> PadByte(buf, 4 * a) + 256 * PadByte(buf, 4 * a + 1),
          hi |-> PadByte(buf, 4 * a + 2) + 256 * PadByte(buf, 4 * a + 3)]
    ELSE LET m == (a + b) \div 2
             l == SumWords(buf, a, m)
             r == SumWords(buf, m, b)
         IN  [lo |-> l.lo + r.lo, hi |-> l.hi + r.hi]

\* a slip: "& 0xffffffff" is left out
adnl_checksum_unmasked(buf) ==
    LET s == SumWords(buf, 0, (buf.len + 3) \div 4)
    IN  [lo |-> s.lo % 65536, hi |-> s.hi + s.lo \div 65536]

\* adnl_checksum(buf): sum of the words for i in range(0, len(buf), 4),
\* & 0xffffffff
adnl_checksum(buf) ==
    LET s == SumWords(buf, 0, (buf.len + 3) \div 4)
    IN  [lo |-> s.lo % 65536, hi |-> (s.hi + s.lo \div 65536) % 65536]

\* a + b of Python integers kept as halves: lo stays below 2^16, hi grows
AddU(a, b) ==
    [lo |-> (a.lo + b.lo) % 65536, hi |-> a.hi + b.hi + (a.lo + b.lo) \div 65536]

(***************************************************************************)
(* Frames written on bulk-OUT.  kind is "text" (text, then the formatted   *)
(* argument arg), "bytes" (arg holds the raw bytes) or "data" (buf).       *)
(* code is the number the program formatted into the frame, kept for the   *)
(* log where it is a program constant or an item index.                    *)
(***************************************************************************)
TextFrame(text, arg, code) ==
    [kind |-> "text", text |-> text, arg |-> arg, buf |-> NoBuf, code |-> code]
BytesFrame(what, bytes, code) ==
    [kind |-> "bytes", text |-> what, arg |-> bytes, buf |-> NoBuf, code |-> code]
DataFrame(b) ==
    [kind |-> "data", text |-> "<data>", arg |-> <<>>, buf |-> b, code |-> 0]

\* the number of bytes a data or bytes frame carries
FrameLen(f) == IF f.kind = "data" THEN f.buf.len ELSE Len(f.arg)

\* what the log keeps of a frame
Tag(f) == [text |-> f.text, code |-> f.code]

\* a slip: the argument is written before the textual command
send_burnsteps_arg_first(burnstep) ==
    << [f |-> BytesFrame("<burnstep>", to_bytes(burnstep), burnstep.lo),
        exp |-> ADNL_REPLY_OKAY],
       [f |-> TextFrame("setvar:burnsteps", <<>>, 0), exp |-> ADNL_REPLY_DATA] >>

\* send_burnsteps(burnstep): its two frames, each with the reply it expects
send_burnsteps(burnstep) ==
    << [f |-> TextFrame("setvar:burnsteps", <<>>, 0), exp |-> ADNL_REPLY_DATA],
       [f |-> BytesFrame("<burnstep>", to_bytes(burnstep), burnstep.lo),
        exp |-> ADNL_REPLY_OKAY] >>

\* tpl_send_burnsteps(second_arg)
tpl_send_burnsteps(second_arg) ==
    << [f |-> TextFrame("oem setvar burnsteps ", HexU32(second_arg), second_arg.lo),
        exp |-> ADNL_REPLY_OKAY] >>

Cmd(text) == << [f |-> TextFrame(text, <<>>, 0), exp |-> ADNL_REPLY_OKAY] >>
ChipinfoCmd(page) ==
    << [f |-> TextFrame("getvar:getchipinfo-", DecStr(page), page),
        exp |-> ADNL_REPLY_OKAY] >>

\* run_bootrom_stage up to 'getvar:downloadsize': the probes and burnsteps
RomProbes ==
    Cmd("getvar:serialno") \o ChipinfoCmd(1) \o ChipinfoCmd(0) \o ChipinfoCmd(1)
    \o ChipinfoCmd(2) \o ChipinfoCmd(3) \o send_burnsteps(BOOTROM_BURNSTEPS_0)
    \o ChipinfoCmd(1) \o send_burnsteps(BOOTROM_BURNSTEPS_1)

\* run_bootrom_stage after the image: burnsteps and boot
RomBoot == send_burnsteps(BOOTROM_BURNSTEPS_2) \o Cmd("boot")

\* run_bl2_stage after identify
Bl2Burnsteps == send_burnsteps(BOOTROM_BURNSTEPS_3)

\* a slip: 'oem disk_initial' is written after the third burnsteps
TplSetup_initial_last(erase) ==
    tpl_send_burnsteps(TPL_BURNSTEPS_0) \o tpl_send_burnsteps(TPL_BURNSTEPS_1)
    \o tpl_send_burnsteps(TPL_BURNSTEPS_2)
    \o << [f |-> TextFrame("oem disk_initial ", DecStr(erase), erase),
           exp |-> ADNL_REPLY_OKAY] >>

\* run_tpl_stage after identify
TplSetup(erase) ==
    tpl_send_burnsteps(TPL_BURNSTEPS_0) \o tpl_send_burnsteps(TPL_BURNSTEPS_1)
    \o << [f |-> TextFrame("oem disk_initial ", DecStr(erase), erase),
           exp |-> ADNL_REPLY_OKAY] >>
    \o tpl_send_burnsteps(TPL_BURNSTEPS_2)

(***************************************************************************)
(* The USB bus and the device: what a poll of the bus and a read of        *)
(* bulk-IN may return.                                                     *)
(***************************************************************************)
\* a device is <<address>>; no device is <<>>
None == <<>>
BusAddrs == {5, 9}
BusResults == {None} \cup {<<a>> : a \in BusAddrs}
\* what the first lookup of do_adnl_burn may return (the addresses being
\* interchangeable, the device is first seen at one of them)
FirstResults == {None, <<5>>}

ShortReply == <<79, 75, 65>>
\* bytes that are not UTF-8: 0xff and 0xfe lead no character
NotUtf8 == <<255, 254, 0, 1>>
AckReplies ==
    {ADNL_REPLY_OKAY, ADNL_REPLY_FAIL, ADNL_REPLY_INFO, ADNL_REPLY_DATA,
     ShortReply, NotUtf8}

\* reply to 'getvar:identify': protocol id at byte 4, stage code at byte 7
IdentifyReply(proto, code) == ADNL_REPLY_OKAY \o <<proto, 0, 0, code>>
IdentifyReplies ==
    {IdentifyReply(5, c) : c \in {0, 8, 16, 4}}
    \cup {IdentifyReply(3, 0), ADNL_REPLY_OKAY, ADNL_REPLY_FAIL}

\* u32 little-endian of a small integer
U32LE(n) == <<n % 256, (n \div 256) % 256, (n \div 65536) % 256, n \div 16777216>>

\* chip-info page 1: 64 bytes, SoC family at 0x04 and FEAT at 0x24
ChipinfoPage1(family, feat_word) ==
    [k \in 1..64 |->
        IF k \in 5..8 THEN U32LE(family)[k - 4]
        ELSE IF k \in 37..40 THEN U32LE(feat_word)[k - 36]
        ELSE 0]
Chipinfo1Replies ==
    {ADNL_REPLY_OKAY \o ChipinfoPage1(fam, ft) :
        fam \in {SocFamily.A1, SocFamily.T5, SocFamily.SC2, 99}, ft \in {1, 16}}
    \cup {ADNL_REPLY_FAIL}

\* the replies to 'getvar:getchipinfo-1' of the device at hand: of the chip
\* that chip describes where one is given, of any chip otherwise
Chipinfo1Device(chip) ==
    IF DOMAIN chip = {"family", "feat"}
    THEN {ADNL_REPLY_OKAY \o ChipinfoPage1(chip.family, chip.feat), ADNL_REPLY_FAIL}
    ELSE Chipinfo1Replies

\* reply to 'getvar:downloadsize': the number as text, NUL-terminated
DownloadsizeReplies ==
    { ADNL_REPLY_OKAY \o <<48, 120, 52, 48, 0>>,
      ADNL_REPLY_OKAY \o <<50, 48, 48, 0, 55>>,
      ADNL_REPLY_OKAY \o <<0>>,
      ADNL_REPLY_FAIL }

\* reply to 'getvar:cbw'
BuildCBW(magic, seq, sz, offs, nck, end) ==
    ADNL_REPLY_OKAY \o magic \o U32LE(seq) \o U32LE(sz) \o U32LE(offs)
    \o <<nck, end>> \o [k \in 1..10 |-> 0]
\* <<size, offset>> of the windows the device asks for
CbwWindows == {<<20000, 20000>>, <<20000, 30000>>}
CbwMore == {BuildCBW(AMLC, 1, w[1], w[2], 0, 0) : w \in CbwWindows}
CbwEnd == {BuildCBW(AMLC, 1, sz, 0, 0, 1) : sz \in {0, 512}}
CbwBad ==
    {BuildCBW(<<65, 77, 76, 83>>, 1, 0, 0, 0, 1),
     BuildCBW(<<65, 77, 76, 255>>, 1, 0, 0, 0, 1), ADNL_REPLY_FAIL}

\* reply to 'mwrite:verify=addsum'
DATAOUT == <<68, 65, 84, 65, 79, 85, 84>>
DataoutReply(x, y) == DATAOUT \o Hex08(x) \o <<58>> \o Hex08(y)
\* <<X, Y>> of the requests the device makes
PartWindows == {<<20000, 0>>, <<8, 19996>>}
MwriteMore == {DataoutReply(w[1], w[2]) : w \in PartWindows}
MwriteOther ==
    {ADNL_REPLY_OKAY, ADNL_REPLY_FAIL, DATAOUT \o <<52, 48>>,
     ADNL_REPLY_OKAY \o <<255>>}

\* replies read while the device verifies a partition
VerifyReplies == {ADNL_REPLY_OKAY, ADNL_REPLY_FAIL, ShortReply, NotUtf8}

\* replies of a device that is busy verifying, without and with a text
\* after the prefix; the poll is followed for MaxInfo of them
BusyReplies == {ADNL_REPLY_INFO, ADNL_REPLY_INFO \o <<98, 117, 115, 121>>}

\* the chunks the send loops cut a buffer into when size bytes were asked
Min(a, b) == IF a < b THEN a ELSE b
Chunks(b, sz) ==
    IF sz = 0 THEN {}
    ELSE {BufSlice(b, k * USB_BULK_SIZE,
                   k * USB_BULK_SIZE + Min(sz - k * USB_BULK_SIZE, USB_BULK_SIZE)) :
            k \in 0..((sz - 1) \div USB_BULK_SIZE)}

\* the buffers the windows above make the driver read, and their chunks
WindowBufs ==
    UNION {{ItemRead(i, w[2], w[1])} \cup Chunks(ItemRead(i, w[2], w[1]), w[1]) :
             i \in {item_get("USB", "UBOOT"), item_get("USB", "UBOOT_ENC")},
             w \in CbwWindows}
    \cup {ItemRead(i, w[2], w[1]) :
             i \in {j \in 1..Len(Items) : Items[j].main = "PARTITION"},
             w \in PartWindows}

\* adnl_checksum of those buffers, computed once
ChecksumTable == [b \in WindowBufs |-> adnl_checksum(b)]
Checksum(b) == IF b \in WindowBufs THEN ChecksumTable[b] ELSE adnl_checksum(b)

(***************************************************************************)
(* State.                                                                  *)
(***************************************************************************)
VARIABLES
    pc,                 \* where the session stands
    exc,                \* the exception that left do_adnl_burn, "" if none
    fault,              \* the first exception any step raised, "" if none
    reset, erase_code,  \* arguments of do_adnl_burn
    dev,                \* the device the last bus lookup returned
    ep,                 \* the device whose (epout, epin) are in use
    dev_addr_rom_stage, \* the recorded address
    stage,              \* do_adnl_burn: stage of the first identify
    has_secureboot,     \* do_adnl_burn: result of is_secureboot_enabled
    phases_done,        \* how many of the three run_*_stage calls returned
    feat,               \* is_secureboot_enabled: FEAT
    step,               \* index of the next command of a command sequence
    bl2_size,           \* run_bootrom_stage: parsed download size
    pos,                \* cursor of each item of the image
    item,               \* the item being sent (index in Items)
    size, buf, buf_offs,\* locals of the send loops
    cur_sum,            \* run_bl2_stage: running sum
    sum_res,            \* tpl_burn_partition: addsum of the buffer
    it,                 \* run_tpl_stage: index of the for loop over items
    sent,               \* log: tag of every frame written
    last,               \* the frame written last, with the device it went to
    nread,              \* number of bulk-IN reads
    rx,                 \* the reply read last
    polled,             \* wait_for_device: results of its polls so far
    sleeps,             \* time.sleep(1) calls of the loop in progress
    vseen,              \* first 4 bytes of each reply read while verifying
    ncbw,               \* run_bl2_stage: CBWs with end = 0 handled
    bl2_sent, bl2_want, \* run_bl2_stage: data bytes written / sizes asked
    ndataout,           \* tpl_burn_partition: DATAOUT requests handled
    u_in, u_out         \* argument and result of a function under test

prog == <<reset, erase_code, dev, ep, dev_addr_rom_stage, stage,
          has_secureboot, phases_done, feat, step, bl2_size>>
loop == <<item, size, buf, buf_offs, cur_sum, sum_res, it>>
io == <<sent, last, nread, rx>>
obs == <<polled, sleeps, vseen, ncbw, bl2_sent, bl2_want, ndataout>>
unit == <<u_in, u_out>>
vars == <<pc, exc, fault, prog, pos, loop, io, obs, unit>>

Zero == [hi |-> 0, lo |-> 0]
NoFrame == [dev |-> None, kind |-> "", text |-> "", arg |-> <<>>, buf |-> NoBuf]

\* the state all specifications start from, apart from pc and the arguments
Fresh ==
    /\ exc = NoError /\ fault = NoError
    /\ dev = None /\ ep = None /\ dev_addr_rom_stage = 0
    /\ stage = "" /\ has_secureboot = 0 /\ phases_done = 0
    /\ feat = 0 /\ step = 1 /\ bl2_size = 0
    /\ pos = [i \in 1..Len(Items) |-> 0]
    /\ item = 0 /\ size = 0 /\ buf = NoBuf /\ buf_offs = 0
    /\ cur_sum = Zero /\ sum_res = Zero /\ it = 1
    /\ sent = <<>> /\ last = NoFrame /\ nread = 0 /\ rx = <<>>
    /\ polled = <<>> /\ sleeps = 0 /\ vseen = <<>>
    /\ ncbw = 0 /\ bl2_sent = 0 /\ bl2_want = 0 /\ ndataout = 0

\* do_adnl_burn(reset, erase_code, aml_img) is called
Init ==
    /\ pc = "find"
    /\ reset \in BOOLEAN
    /\ erase_code \in {3}
    /\ Fresh
    /\ u_in = <<>> /\ u_out = <<>>

(***************************************************************************)
(* Effects shared by the steps.                                            *)
(***************************************************************************)
\* epout.write(f)
Write(f) ==
    /\ sent' = Append(sent, Tag(f))
    /\ last' = [dev |-> ep, kind |-> f.kind, text |-> f.text,
                arg |-> f.arg, buf |-> f.buf]

\* epin.read(), which returns msg
Read(msg) == nread' = nread + 1 /\ rx' = msg

\* epout.write(f) followed by epin.read(), which returns msg
Xfer(f, msg) == Write(f) /\ Read(msg)

\* the step goes on to p
Go(p) == pc' = p /\ UNCHANGED <<exc, fault>>

\* the step raises kind, which nothing catches: do_adnl_burn raises it
Fail(kind) == pc' = "raised" /\ exc' = kind /\ fault' = kind

\* a slip: the handler swallows the RuntimeError instead of raising anew
except_RuntimeError_pass(err) == IF err = "RuntimeError" THEN NoError ELSE err

\* "except RuntimeError as e: raise RuntimeError(...) from e": the exception
\* that leaves the try statement when its body raised err
except_RuntimeError(err) == err

\* the step's body raised err inside such a try statement, or went well and
\* goes on to p
Try(err, p) ==
    /\ fault' = IF fault = NoError THEN err ELSE fault
    /\ exc' = except_RuntimeError(err)
    /\ pc' = IF except_RuntimeError(err) # NoError THEN "raised" ELSE p

(***************************************************************************)
(* do_adnl_burn: discovery and the first identify.                         *)
(***************************************************************************)
IdentifyCmd == TextFrame("getvar:identify", <<>>, 0)

\* usb.core.find: no device means a logged message and a plain return
do_adnl_burn_find ==
    /\ pc = "find"
    /\ \E d \in FirstResults :
         /\ dev' = d
         /\ IF d = None
            THEN /\ pc' = "returned"
                 /\ UNCHANGED <<dev_addr_rom_stage, ep>>
            ELSE /\ pc' = "identify"
                 /\ dev_addr_rom_stage' = d[1]
                 /\ ep' = d
    /\ UNCHANGED <<exc, fault, reset, erase_code, stage, has_secureboot,
                   phases_done, feat, step, bl2_size, pos, loop, io, obs, unit>>

\* a slip: only TPL is told apart, any other stage is taken for ROM
do_adnl_burn_dispatch_lax(stg) ==
    IF stg = "TPL" THEN "reboot_romusb" ELSE "rom_eps"

\* what do_adnl_burn does with the stage of the first identify
do_adnl_burn_dispatch(stg) ==
    IF stg = "TPL" THEN "reboot_romusb"
    ELSE IF stg # "ROM" THEN "raise"
    ELSE "rom_eps"

do_adnl_burn_identify ==
    /\ pc = "identify"
    /\ \E msg \in IdentifyReplies :
         LET r == send_cmd_identify(msg)
         IN  /\ Xfer(IdentifyCmd, msg)
             /\ stage' = IF r.err = NoError THEN r.stage ELSE stage
             /\ IF r.err # NoError THEN Fail(r.err)
                ELSE IF do_adnl_burn_dispatch(r.stage) = "raise"
                     THEN Fail("RuntimeError")
                     ELSE Go(do_adnl_burn_dispatch(r.stage))
    /\ UNCHANGED <<reset, erase_code, dev, ep, dev_addr_rom_stage,
                   has_secureboot, phases_done, feat, step, bl2_size,
                   pos, loop, obs, unit>>

do_adnl_burn_reboot_romusb ==
    /\ pc = "reboot_romusb"
    /\ \E msg \in AckReplies :
         LET r == send_cmd(msg, ADNL_REPLY_OKAY)
         IN  /\ Xfer(TextFrame("reboot-romusb", <<>>, 0), msg)
             /\ IF r.err # NoError THEN Fail(r.err) ELSE Go("wait_rom")
    /\ UNCHANGED <<prog, pos, loop, obs, unit>>

(***************************************************************************)
(* wait_for_device(last_dev_addr), called with dev_addr_rom_stage by       *)
(* do_adnl_burn and by run_tpl_stage: one poll of the bus per step.        *)
(***************************************************************************)
\* usb.core.find(...) on a bus that lists the devices devs: the first of
\* them that is in match, None when there is none
find(devs, match) ==
    IF \E k \in DOMAIN devs : devs[k] \in match
    THEN devs[CHOOSE k \in DOMAIN devs :
                 devs[k] \in match /\ \A j \in 1..(k - 1) : devs[j] \notin match]
    ELSE None

\* what usb.core.find(idVendor, idProduct) of wait_for_device may return:
\* the first device of the bus where the bus is given, with its bus and
\* port after its address; any result otherwise
BusPoll(given) ==
    IF DOMAIN given = {"prev", "devs"}
    THEN {find(given.devs, {given.devs[k] : k \in DOMAIN given.devs})}
    ELSE BusResults

\* a slip: any device ends the wait, whatever its address
wait_for_device_found_any(d, last_dev_addr) == d # None

\* the poll result d ends the wait
wait_for_device_found(d, last_dev_addr) ==
    d # None /\ d[1] # last_dev_addr

wait_for_device ==
    /\ pc \in {"wait_rom", "wait_tpl"}
    /\ \E d \in BusPoll(u_in) :
         /\ polled' = Append(polled, d)
         /\ IF wait_for_device_found(d, dev_addr_rom_stage)
            THEN /\ dev' = d
                 /\ pc' = IF pc = "wait_rom" THEN "rom_eps" ELSE "tpl_eps"
                 /\ UNCHANGED sleeps
            ELSE /\ sleeps < MaxPolls
                 /\ sleeps' = sleeps + 1
                 /\ UNCHANGED <<dev, pc>>
    /\ UNCHANGED <<exc, fault, reset, erase_code, ep, dev_addr_rom_stage, stage,
                   has_secureboot, phases_done, feat, step, bl2_size, pos,
                   loop, io, vseen, ncbw, bl2_sent, bl2_want, ndataout, unit>>

\* a slip: the recorded address is left as it was
rom_stage_address_stale(d, old) == old

\* do_adnl_burn: "dev_addr_rom_stage = dev.address", with d the device in
\* hand and old the address recorded so far
rom_stage_address(d, old) == d[1]

\* do_adnl_burn: the address is recorded and get_device_eps(dev) is called
do_adnl_burn_rom_eps ==
    /\ pc = "rom_eps"
    /\ dev_addr_rom_stage' = rom_stage_address(dev, dev_addr_rom_stage)
    /\ ep' = dev
    /\ polled' = <<>> /\ sleeps' = 0
    /\ Go("sb_identify")
    /\ UNCHANGED <<reset, erase_code, dev, stage, has_secureboot, phases_done,
                   feat, step, bl2_size, pos, loop, io,
                   vseen, ncbw, bl2_sent, bl2_want, ndataout, unit>>

(***************************************************************************)
(* is_secureboot_enabled and the chip-info reads under it.                 *)
(***************************************************************************)
\* a slip: the stage that identify reports is not looked at
is_secureboot_enabled_identify_any_stage ==
    /\ pc = "sb_identify"
    /\ \E msg \in IdentifyReplies :
         LET r == send_cmd_identify(msg)
         IN  /\ Xfer(IdentifyCmd, msg)
             /\ IF r.err # NoError THEN Fail(r.err) ELSE Go("feat_identify")
    /\ UNCHANGED <<prog, pos, loop, obs, unit>>

\* is_secureboot_enabled up to its stage check
is_secureboot_enabled_identify ==
    /\ pc = "sb_identify"
    /\ \E msg \in IdentifyReplies :
         LET r == send_cmd_identify(msg)
         IN  /\ Xfer(IdentifyCmd, msg)
             /\ IF r.err # NoError THEN Fail(r.err)
                ELSE IF r.stage # "ROM" THEN Fail("RuntimeError")
                ELSE Go("feat_identify")
    /\ UNCHANGED <<prog, pos, loop, obs, unit>>

\* a slip: the stage is not looked at, only the page
get_chipinfo_allowed_any_stage(stg, page) == 0 <= page /\ page <= 7

\* get_chipinfo before its command: the stage and the page are checked
get_chipinfo_allowed(stg, page) ==
    stg \in {"ROM", "SPL"} /\ 0 <= page /\ page <= 7

\* get_chipinfo up to its command: called by adnl_get_feat and
\* adnl_get_soc_family_id with page 1, or on its own with the page of u_in
get_chipinfo_identify ==
    /\ pc \in {"feat_identify", "fid_identify", "get_chipinfo"}
    /\ \E msg \in IdentifyReplies :
         LET r == send_cmd_identify(msg)
             page == IF pc = "get_chipinfo" THEN u_in.page ELSE 1
         IN  /\ Xfer(IdentifyCmd, msg)
             /\ IF r.err # NoError THEN Fail(r.err)
                ELSE IF ~get_chipinfo_allowed(r.stage, page) THEN Fail("RuntimeError")
                ELSE Go(IF pc = "feat_identify" THEN "feat_page"
                        ELSE IF pc = "fid_identify" THEN "fid_page"
                        ELSE "get_chipinfo_page")
    /\ UNCHANGED <<prog, pos, loop, obs, unit>>

\* get_chipinfo on the reply msg to its command: the header is cut off and
\* nbytes bytes from offset are returned
get_chipinfo(msg, offset, nbytes) ==
    LET r == send_cmd(msg, ADNL_REPLY_OKAY)
        page == Slice(msg, 4, Len(msg))
    IN  IF r.err # NoError THEN [err |-> r.err, val |-> <<>>]
        ELSE IF offset > 0 /\ offset + nbytes >= Len(page)
        THEN [err |-> "RuntimeError", val |-> <<>>]
        ELSE [err |-> NoError, val |-> Slice(page, offset, offset + nbytes)]

\* adnl_get_feat
adnl_get_feat ==
    /\ pc = "feat_page"
    /\ \E msg \in Chipinfo1Device(u_in) :
         LET r == get_chipinfo(msg, 36, 4)
         IN  /\ Xfer(ChipinfoCmd(1)[1].f, msg)
             /\ feat' = IF r.err = NoError THEN from_bytes(r.val) ELSE feat
             /\ IF r.err # NoError THEN Fail(r.err) ELSE Go("fid_identify")
    /\ UNCHANGED <<reset, erase_code, dev, ep, dev_addr_rom_stage, stage,
                   has_secureboot, phases_done, step, bl2_size, pos, loop,
                   obs, unit>>

\* SocFamily(id).name, "" where SocFamily(id) raises ValueError
SocFamilyName(id) ==
    IF \E n \in DOMAIN SocFamily : SocFamily[n] = id
    THEN CHOOSE n \in DOMAIN SocFamily : SocFamily[n] = id
    ELSE ""

\* a slip: the mask of A1 is used for every family
is_secureboot_enabled_one_mask(ft, id) ==
    IF SocFamilyName(id) = "" THEN [err |-> "ValueError", val |-> 0]
    ELSE IF SocFamilyName(id) \notin DOMAIN FeatSecurebootMask
    THEN [err |-> "KeyError", val |-> 0]
    ELSE [err |-> NoError, val |-> BitAnd(ft, FeatSecurebootMask.A1)]

\* is_secureboot_enabled once FEAT and the family id are read
is_secureboot_enabled(ft, id) ==
    IF SocFamilyName(id) = "" THEN [err |-> "ValueError", val |-> 0]
    ELSE IF SocFamilyName(id) \notin DOMAIN FeatSecurebootMask
    THEN [err |-> "KeyError", val |-> 0]
    ELSE [err |-> NoError, val |-> BitAnd(ft, FeatSecurebootMask[SocFamilyName(id)])]

\* adnl_get_soc_family_id, the end of is_secureboot_enabled, and the start
\* of run_bootrom_stage (the item of the image is looked up)
adnl_get_soc_family_id ==
    /\ pc = "fid_page"
    /\ \E msg \in Chipinfo1Device(u_in) :
         LET r == get_chipinfo(msg, 4, 4)
             sb == is_secureboot_enabled(feat, from_bytes(r.val))
             err == IF r.err # NoError THEN r.err ELSE sb.err
         IN  /\ Xfer(ChipinfoCmd(1)[1].f, msg)
             /\ has_secureboot' = IF err = NoError THEN sb.val ELSE has_secureboot
             /\ item' = IF err # NoError THEN item
                        ELSE item_get("USB", IF sb.val # 0 THEN "DDR_ENC" ELSE "DDR")
             /\ IF err # NoError THEN Fail(err) ELSE Go("rom_probe")
    /\ step' = 1
    /\ UNCHANGED <<reset, erase_code, dev, ep, dev_addr_rom_stage, stage,
                   phases_done, feat, bl2_size, pos,
                   size, buf, buf_offs, cur_sum, sum_res, it, obs, unit>>

(***************************************************************************)
(* A fixed sequence of send_cmd calls: one call per step.                  *)
(***************************************************************************)
SendSequence(here, cmds, next) ==
    /\ pc = here
    /\ \E msg \in AckReplies :
         LET r == send_cmd(msg, cmds[step].exp)
         IN  /\ Xfer(cmds[step].f, msg)
             /\ IF r.err # NoError THEN Fail(r.err) /\ UNCHANGED step
                ELSE IF step < Len(cmds) THEN Go(here) /\ step' = step + 1
                ELSE Go(next) /\ step' = 1

(***************************************************************************)
(* run_bootrom_stage.                                                      *)
(***************************************************************************)
run_bootrom_stage_probes ==
    /\ SendSequence("rom_probe", RomProbes, "downloadsize")
    /\ UNCHANGED <<reset, erase_code, dev, ep, dev_addr_rom_stage, stage,
                   has_secureboot, phases_done, feat, bl2_size, pos, loop,
                   obs, unit>>

\* int(msg.tobytes().split(b'\x00', 1)[0][4:], 0)
parse_downloadsize(msg) ==
    LET nul == IndexOf(msg, 0, 1)
        head == IF nul = 0 THEN msg ELSE SubSeq(msg, 1, nul - 1)
    IN  ParseInt0(Slice(head, 4, Len(head)))

run_bootrom_stage_downloadsize ==
    /\ pc = "downloadsize"
    /\ \E msg \in DownloadsizeReplies :
         LET r == send_cmd(msg, ADNL_REPLY_OKAY)
             n == parse_downloadsize(msg)
         IN  /\ Xfer(TextFrame("getvar:downloadsize", <<>>, 0), msg)
             /\ IF r.err # NoError THEN Fail(r.err) /\ UNCHANGED bl2_size
                ELSE IF ~n.ok THEN Fail("ValueError") /\ UNCHANGED bl2_size
                ELSE Go("download") /\ bl2_size' = n.val
    /\ UNCHANGED <<reset, erase_code, dev, ep, dev_addr_rom_stage, stage,
                   has_secureboot, phases_done, feat, step, pos, loop, obs, unit>>

run_bootrom_stage_download ==
    /\ pc = "download"
    /\ \E msg \in AckReplies :
         LET r == send_cmd(msg, ADNL_REPLY_DATA)
         IN  /\ Xfer(TextFrame("download:", Hex08(bl2_size), 0), msg)
             /\ IF r.err # NoError THEN Fail(r.err) ELSE Go("send_spl")
    /\ UNCHANGED <<prog, pos, loop, obs, unit>>

run_bootrom_stage_send ==
    /\ pc = "send_spl"
    /\ \E msg \in AckReplies :
         LET r == send_cmd(msg, ADNL_REPLY_OKAY)
             b == ItemReadAll(item, pos[item])
         IN  /\ Xfer(DataFrame(b), msg)
             /\ pos' = [pos EXCEPT ![item] = @ + b.len]
             /\ IF r.err # NoError THEN Fail(r.err) ELSE Go("rom_boot")
    /\ UNCHANGED <<prog, loop, obs, unit>>

\* burnsteps 2 and boot; once boot is acknowledged run_bootrom_stage returns
\* and run_bl2_stage begins
run_bootrom_stage_boot ==
    /\ SendSequence("rom_boot", RomBoot, "bl2_identify")
    /\ phases_done' = IF pc' = "bl2_identify" THEN 1 ELSE phases_done
    /\ item' = IF pc' = "bl2_identify" THEN 0 ELSE item
    /\ bl2_size' = IF pc' = "bl2_identify" THEN 0 ELSE bl2_size
    /\ UNCHANGED <<reset, erase_code, dev, ep, dev_addr_rom_stage, stage,
                   has_secureboot, feat, pos,
                   size, buf, buf_offs, cur_sum, sum_res, it, obs, unit>>

(***************************************************************************)
(* run_bl2_stage.                                                          *)
(***************************************************************************)
\* the stage run_bl2_stage accepts
run_bl2_stage_accepts(stg) == stg = "SPL"

run_bl2_stage_identify ==
    /\ pc = "bl2_identify"
    /\ \E msg \in IdentifyReplies :
         LET r == send_cmd_identify(msg)
         IN  /\ Xfer(IdentifyCmd, msg)
             /\ IF r.err # NoError THEN Fail(r.err)
                ELSE IF ~run_bl2_stage_accepts(r.stage) THEN Fail("RuntimeError")
                ELSE Go("bl2_burnsteps")
    /\ UNCHANGED <<prog, pos, loop, obs, unit>>

\* burnsteps 3, then the item of the image is looked up
run_bl2_stage_burnsteps ==
    /\ SendSequence("bl2_burnsteps", Bl2Burnsteps, "cbw")
    /\ item' = IF pc' = "cbw"
               THEN item_get("USB", IF has_secureboot # 0 THEN "UBOOT_ENC" ELSE "UBOOT")
               ELSE item
    /\ UNCHANGED <<reset, erase_code, dev, ep, dev_addr_rom_stage, stage,
                   has_secureboot, phases_done, feat, bl2_size, pos,
                   size, buf, buf_offs, cur_sum, sum_res, it, obs, unit>>

\* send_and_handle_cbw on the reply msg
send_and_handle_cbw(msg) ==
    LET r == send_cmd(msg, ADNL_REPLY_OKAY)
    IN  IF r.err # NoError
        THEN [err |-> r.err, seq |-> 0, size |-> 0, offs |-> 0,
              need_checksum |-> FALSE, end |-> 0]
        ELSE CBW(msg)

\* the head of the loop: a CBW is requested; done() ends the loop, otherwise
\* the window is read from the item
run_bl2_stage_cbw ==
    /\ pc = "cbw"
    /\ \E msg \in (IF ncbw < MaxCbw THEN CbwMore ELSE {}) \cup CbwEnd \cup CbwBad :
         LET cbw == send_and_handle_cbw(msg)
             b == ItemRead(item, cbw.offs, cbw.size)
         IN  /\ Xfer(TextFrame("getvar:cbw", <<>>, 0), msg)
             /\ IF cbw.err # NoError
                THEN /\ Fail(cbw.err)
                     /\ UNCHANGED <<size, buf, buf_offs, cur_sum, pos, ncbw, bl2_want>>
                ELSE IF cbw.end # 0
                THEN /\ Go("bl2_return")
                     /\ size' = cbw.size
                     /\ UNCHANGED <<buf, buf_offs, cur_sum, pos, ncbw, bl2_want>>
                ELSE /\ Go(IF cbw.size > 0 THEN "bl2_download" ELSE "bl2_checksum")
                     /\ size' = cbw.size
                     /\ buf' = b
                     /\ buf_offs' = 0
                     /\ cur_sum' = Zero
                     /\ pos' = [pos EXCEPT ![item] = cbw.offs + b.len]
                     /\ ncbw' = ncbw + 1
                     /\ bl2_want' = bl2_want + cbw.size
    /\ UNCHANGED <<prog, item, sum_res, it, polled, sleeps, vseen, bl2_sent,
                   ndataout, unit>>

run_bl2_stage_download ==
    /\ pc = "bl2_download"
    /\ \E msg \in AckReplies :
         LET r == send_cmd(msg, ADNL_REPLY_DATA)
             to_send == Min(size, USB_BULK_SIZE)
         IN  /\ Xfer(TextFrame("download:", Hex08(to_send), 0), msg)
             /\ IF r.err # NoError THEN Fail(r.err) ELSE Go("bl2_data")
    /\ UNCHANGED <<prog, pos, loop, obs, unit>>

run_bl2_stage_data ==
    /\ pc = "bl2_data"
    /\ \E msg \in AckReplies :
         LET r == send_cmd(msg, ADNL_REPLY_OKAY)
             to_send == Min(size, USB_BULK_SIZE)
             chunk == BufSlice(buf, buf_offs, buf_offs + to_send)
             more == size - to_send > 0
         IN  /\ Xfer(DataFrame(chunk), msg)
             /\ bl2_sent' = bl2_sent + chunk.len
             /\ Try(r.err, IF more THEN "bl2_download" ELSE "bl2_checksum")
             /\ IF pc' = "raised"
                THEN UNCHANGED <<cur_sum, size, buf_offs>>
                ELSE /\ cur_sum' = AddU(cur_sum, Checksum(chunk))
                     /\ size' = size - to_send
                     /\ buf_offs' = buf_offs + to_send
    /\ UNCHANGED <<prog, pos, item, buf, sum_res, it, polled, sleeps, vseen,
                   ncbw, bl2_want, ndataout, unit>>

run_bl2_stage_checksum ==
    /\ pc = "bl2_checksum"
    /\ \E msg \in AckReplies :
         LET r == send_cmd(msg, ADNL_REPLY_DATA)
         IN  /\ Xfer(TextFrame("setvar:checksum", <<>>, 0), msg)
             /\ IF r.err # NoError THEN Fail(r.err) ELSE Go("bl2_sum")
    /\ UNCHANGED <<prog, pos, loop, obs, unit>>

run_bl2_stage_sum ==
    /\ pc = "bl2_sum"
    /\ \E msg \in AckReplies :
         LET r == send_cmd(msg, ADNL_REPLY_OKAY)
         IN  /\ Xfer(BytesFrame("<sum>", to_bytes(cur_sum), 0), msg)
             /\ Try(r.err, "cbw")
    /\ UNCHANGED <<prog, pos, loop, obs, unit>>

\* run_bl2_stage returns: its locals are gone, run_tpl_stage begins
run_bl2_stage_return ==
    /\ pc = "bl2_return"
    /\ Go("wait_tpl")
    /\ phases_done' = 2
    /\ item' = 0 /\ size' = 0 /\ buf' = NoBuf /\ buf_offs' = 0 /\ cur_sum' = Zero
    /\ ncbw' = 0 /\ bl2_sent' = 0 /\ bl2_want' = 0
    /\ UNCHANGED <<reset, erase_code, dev, ep, dev_addr_rom_stage, stage,
                   has_secureboot, feat, step, bl2_size, pos, sum_res, it, io,
                   polled, sleeps, vseen, ndataout, unit>>

(***************************************************************************)
(* run_tpl_stage.                                                          *)
(***************************************************************************)
\* get_device_eps(dev) on the device wait_for_device returned
run_tpl_stage_eps ==
    /\ pc = "tpl_eps"
    /\ ep' = dev
    /\ polled' = <<>> /\ sleeps' = 0
    /\ Go("tpl_identify")
    /\ UNCHANGED <<reset, erase_code, dev, dev_addr_rom_stage, stage,
                   has_secureboot, phases_done, feat, step, bl2_size, pos, loop,
                   io, vseen, ncbw, bl2_sent, bl2_want, ndataout, unit>>

\* the stage run_tpl_stage accepts: the result of identify is not looked at
run_tpl_stage_accepts(stg) == TRUE

run_tpl_stage_identify ==
    /\ pc = "tpl_identify"
    /\ \E msg \in IdentifyReplies :
         LET r == send_cmd_identify(msg)
         IN  /\ Xfer(IdentifyCmd, msg)
             /\ IF r.err # NoError THEN Fail(r.err)
                ELSE IF ~run_tpl_stage_accepts(r.stage) THEN Fail("RuntimeError")
                ELSE Go("tpl_setup")
    /\ UNCHANGED <<prog, pos, loop, obs, unit>>

\* burnsteps 0xC0041030, 0xC0041031, disk_initial, burnsteps 0xC0041032
run_tpl_stage_setup ==
    /\ SendSequence("tpl_setup", TplSetup(erase_code), "tpl_items")
    /\ it' = IF pc' = "tpl_items" THEN 1 ELSE it
    /\ UNCHANGED <<reset, erase_code, dev, ep, dev_addr_rom_stage, stage,
                   has_secureboot, phases_done, feat, bl2_size, pos,
                   item, size, buf, buf_offs, cur_sum, sum_res, obs, unit>>

\* "for item in aml_img.items(): if item.main_type() == 'PARTITION'": one
\* item per step; a partition starts tpl_burn_partition
run_tpl_stage_items ==
    /\ pc = "tpl_items"
    /\ IF it > Len(Items)
       THEN Go("tpl_reset") /\ UNCHANGED <<it, item>>
       ELSE IF Items[it].main = "PARTITION"
       THEN Go("mwrite") /\ item' = it /\ UNCHANGED it
       ELSE Go("tpl_items") /\ it' = it + 1 /\ UNCHANGED item
    /\ UNCHANGED <<prog, pos, size, buf, buf_offs, cur_sum, sum_res, io, obs, unit>>

\* a slip: reboot is sent whether or not reset was asked for
run_tpl_stage_reboots_always(rst) == TRUE

\* "if reset:" at the end of run_tpl_stage
run_tpl_stage_reboots(rst) == rst

\* "if reset: send_cmd('reboot')"; run_tpl_stage and do_adnl_burn return
run_tpl_stage_reset ==
    /\ pc = "tpl_reset"
    /\ IF run_tpl_stage_reboots(reset)
       THEN \E msg \in AckReplies :
              LET r == send_cmd(msg, ADNL_REPLY_OKAY)
              IN  /\ Xfer(TextFrame("reboot", <<>>, 0), msg)
                  /\ IF r.err # NoError THEN Fail(r.err) ELSE Go("returned")
       ELSE Go("returned") /\ UNCHANGED io
    /\ phases_done' = IF pc' = "returned" THEN 3 ELSE phases_done
    /\ UNCHANGED <<reset, erase_code, dev, ep, dev_addr_rom_stage, stage,
                   has_secureboot, feat, step, bl2_size, pos, loop, obs, unit>>

(***************************************************************************)
(* tpl_burn_partition(part_item, ...) for the partition Items[item].       *)
(***************************************************************************)
\* 'oem mwrite 0x<size:x> normal store <name>'; the name is that of item i
MwriteCmd(i) == TextFrame("oem mwrite 0x%x normal store %s", HexStr(Items[i].size), i)

tpl_burn_partition_mwrite ==
    /\ pc = "mwrite"
    /\ \E msg \in AckReplies :
         LET r == send_cmd(msg, ADNL_REPLY_OKAY)
         IN  /\ Xfer(MwriteCmd(item), msg)
             /\ IF r.err # NoError THEN Fail(r.err) ELSE Go("mwrite_verify")
    /\ UNCHANGED <<prog, pos, loop, obs, unit>>

\* the reply to 'mwrite:verify=addsum', decoded as a whole and parsed:
\* [kind, err, size, offs] with kind "okay", "dataout" or "raise".  Fields
\* reads strmsg[7:].split(':'), Text the decoded reply; each is handed its
\* argument as a value, CHOOSE r \in {F(x) : x \in {e}} : TRUE being F(e).
parse_mwrite_reply(msg) ==
    LET bad(e) == [kind |-> "raise", err |-> e, size |-> 0, offs |-> 0]
        Fields(rest) ==
            LET c1 == IndexOf(rest, 58, 1)
                first == IF c1 = 0 THEN rest ELSE SubSeq(rest, 1, c1 - 1)
                after == IF c1 = 0 THEN <<>> ELSE SubSeq(rest, c1 + 1, Len(rest))
                c2 == IndexOf(after, 58, 1)
                second == IF c2 = 0 THEN after ELSE SubSeq(after, 1, c2 - 1)
                x == ParseHex(first)
                y == ParseHex(second)
            IN  IF ~x.ok THEN bad("ValueError")
                ELSE IF c1 = 0 THEN bad("IndexError")
                ELSE IF ~y.ok THEN bad("ValueError")
                ELSE [kind |-> "dataout", err |-> NoError,
                      size |-> x.val, offs |-> y.val]
        Text(strmsg) ==
            IF StartsWith(strmsg, ADNL_REPLY_OKAY)
            THEN [kind |-> "okay", err |-> NoError, size |-> 0, offs |-> 0]
            ELSE IF ~StartsWith(strmsg, DATAOUT) THEN bad("RuntimeError")
            ELSE CHOOSE r \in {Fields(rest) :
                                 rest \in {Slice(strmsg, 7, Len(strmsg))}} : TRUE
    IN  CHOOSE r \in {IF d.err # NoError THEN bad(d.err) ELSE Text(d.text) :
                        d \in {decode(msg)}} : TRUE

\* the head of the loop: the request is written, the reply read and parsed,
\* and the bytes asked for are read from the partition item
tpl_burn_partition_request ==
    /\ pc = "mwrite_verify"
    /\ \E msg \in (IF ndataout < MaxDataout THEN MwriteMore ELSE {}) \cup MwriteOther :
         LET r == parse_mwrite_reply(msg)
             b == ItemRead(item, r.offs, r.size)
         IN  /\ Xfer(TextFrame("mwrite:verify=addsum", <<>>, 0), msg)
             /\ IF r.kind = "raise"
                THEN /\ Fail(r.err)
                     /\ UNCHANGED <<size, buf, buf_offs, sum_res, pos, ndataout>>
                ELSE IF r.kind = "okay"
                THEN /\ Go("verify_send")
                     /\ UNCHANGED <<size, buf, buf_offs, sum_res, pos, ndataout>>
                ELSE /\ Go(IF r.size > 0 THEN "part_chunk" ELSE "part_sum")
                     /\ size' = r.size
                     /\ buf' = b
                     /\ buf_offs' = 0
                     /\ sum_res' = Checksum(b)
                     /\ pos' = [pos EXCEPT ![item] = r.offs + b.len]
                     /\ ndataout' = ndataout + 1
    /\ UNCHANGED <<prog, item, cur_sum, it, polled, sleeps, vseen, ncbw,
                   bl2_sent, bl2_want, unit>>

\* "while size > 0": one chunk is written per step; no reply is read
tpl_burn_partition_chunk ==
    /\ pc = "part_chunk"
    /\ LET to_send == Min(size, USB_BULK_SIZE)
       IN  /\ Write(DataFrame(BufSlice(buf, buf_offs, buf_offs + to_send)))
           /\ size' = size - to_send
           /\ buf_offs' = buf_offs + to_send
           /\ Go(IF size - to_send > 0 THEN "part_chunk" ELSE "part_sum")
    /\ UNCHANGED <<prog, pos, item, buf, cur_sum, sum_res, it, nread, rx, obs, unit>>

tpl_burn_partition_sum ==
    /\ pc = "part_sum"
    /\ \E msg \in AckReplies :
         LET r == send_cmd(msg, ADNL_REPLY_OKAY)
         IN  /\ Xfer(BytesFrame("<sum>", to_bytes(sum_res), 0), msg)
             /\ Try(r.err, "mwrite_verify")
    /\ UNCHANGED <<prog, pos, loop, obs, unit>>

\* the VERIFY item is looked up and read, 'oem verify <payload>' is written
tpl_burn_partition_verify ==
    /\ pc = "verify_send"
    /\ LET v == item_get("VERIFY", Items[item].sub)
           b == ItemReadAll(v, pos[v])
       IN  IF v = 0
           THEN Fail("KeyError") /\ UNCHANGED <<sent, last, pos>>
           ELSE /\ Write(TextFrame("oem verify ", BufBytes(b), 0))
                /\ pos' = [pos EXCEPT ![v] = @ + b.len]
                /\ Go("verify_poll")
    /\ UNCHANGED <<prog, loop, nread, rx, obs, unit>>

\* what the poll loop does with the prefix it read
verify_outcome(prefix) ==
    IF prefix = ADNL_REPLY_INFO THEN "sleep"
    ELSE IF prefix # ADNL_REPLY_OKAY THEN "raise"
    ELSE "done"

\* "while strmsg != OKAY": one read per step
tpl_burn_partition_poll ==
    /\ pc = "verify_poll"
    /\ \E msg \in VerifyReplies \cup (IF sleeps < MaxInfo THEN BusyReplies ELSE {}) :
         LET strmsg == adnl_get_prefix(msg)
             o == verify_outcome(strmsg.text)
         IN  /\ Read(msg)
             /\ vseen' = Append(vseen, Slice(msg, 0, 4))
             /\ IF strmsg.err # NoError
                THEN Fail(strmsg.err) /\ UNCHANGED sleeps
                ELSE /\ sleeps' = IF o = "sleep" THEN sleeps + 1 ELSE sleeps
                     /\ IF o = "raise" THEN Fail("RuntimeError")
                        ELSE Go(IF o = "sleep" THEN "verify_poll" ELSE "part_return")
    /\ UNCHANGED <<prog, pos, loop, sent, last, polled, ncbw, bl2_sent, bl2_want,
                   ndataout, unit>>

\* tpl_burn_partition returns: its locals are gone, the for loop goes on
tpl_burn_partition_return ==
    /\ pc = "part_return"
    /\ Go("tpl_items")
    /\ it' = it + 1
    /\ item' = 0 /\ size' = 0 /\ buf' = NoBuf /\ buf_offs' = 0 /\ sum_res' = Zero
    /\ vseen' = <<>> /\ sleeps' = 0 /\ ndataout' = 0
    /\ UNCHANGED <<prog, pos, cur_sum, io, polled, ncbw, bl2_sent, bl2_want, unit>>

(***************************************************************************)
(* The session.                                                            *)
(***************************************************************************)
Next ==
    \/ do_adnl_burn_find
    \/ do_adnl_burn_identify
    \/ do_adnl_burn_reboot_romusb
    \/ wait_for_device
    \/ do_adnl_burn_rom_eps
    \/ is_secureboot_enabled_identify
    \/ get_chipinfo_identify
    \/ adnl_get_feat
    \/ adnl_get_soc_family_id
    \/ run_bootrom_stage_probes
    \/ run_bootrom_stage_downloadsize
    \/ run_bootrom_stage_download
    \/ run_bootrom_stage_send
    \/ run_bootrom_stage_boot
    \/ run_bl2_stage_identify
    \/ run_bl2_stage_burnsteps
    \/ run_bl2_stage_cbw
    \/ run_bl2_stage_download
    \/ run_bl2_stage_data
    \/ run_bl2_stage_checksum
    \/ run_bl2_stage_sum
    \/ run_bl2_stage_return
    \/ run_tpl_stage_eps
    \/ run_tpl_stage_identify
    \/ run_tpl_stage_setup
    \/ run_tpl_stage_items
    \/ run_tpl_stage_reset
    \/ tpl_burn_partition_mwrite
    \/ tpl_burn_partition_request
    \/ tpl_burn_partition_chunk
    \/ tpl_burn_partition_sum
    \/ tpl_burn_partition_verify
    \/ tpl_burn_partition_poll
    \/ tpl_burn_partition_return

Spec == Init /\ [][Next]_vars

(***************************************************************************)
(* send_cmd on its own: one call with a command, an expected prefix and    *)
(* the reply the device gives.                                             *)
(***************************************************************************)
Prefixes == {ADNL_REPLY_OKAY, ADNL_REPLY_FAIL, ADNL_REPLY_INFO, ADNL_REPLY_DATA}

\* replies around the prefix p: p alone, p with a payload, p cut short, p
\* with one byte changed
RepliesAround(p) ==
    {p, p \o <<0>>, p \o <<5, 0, 0, 8>>}
    \cup {SubSeq(p, 1, k) : k \in 0..3}
    \cup {[p EXCEPT ![k] = 88] : k \in 1..4}
    \cup {[p EXCEPT ![k] = 88] \o p : k \in 1..4}
\* and replies that begin with bytes that are not UTF-8, with a two-byte
\* character that msg[:4] cuts, and with one msg[:4] holds whole
ReplySamples ==
    UNION {RepliesAround(p) : p \in Prefixes}
    \cup {NotUtf8, <<79, 75, 65, 195, 169>>, <<79, 75, 195, 169>>}

InitSendCmd ==
    /\ pc = "send_cmd"
    /\ reset = FALSE /\ erase_code = 0
    /\ Fresh
    /\ u_in \in [cmd : {IdentifyCmd, BytesFrame("<sum>", <<1, 2, 3, 4>>, 0)},
                expected_res : Prefixes,
                reply : ReplySamples]
    /\ u_out = <<>>

send_cmd_call ==
    /\ pc = "send_cmd"
    /\ Xfer(u_in.cmd, u_in.reply)
    /\ u_out' = send_cmd(u_in.reply, u_in.expected_res)
    /\ IF u_out'.err # NoError THEN Fail(u_out'.err) ELSE Go("send_cmd_returned")
    /\ UNCHANGED <<prog, pos, loop, obs, u_in>>

NextSendCmd == send_cmd_call

SpecSendCmd == InitSendCmd /\ [][NextSendCmd]_vars

(***************************************************************************)
(* Properties of the burn session and of send_cmd.                         *)
(***************************************************************************)
\* the positions of the log that hold a frame with this text
Where(text) == {k \in 1..Len(sent) : sent[k].text = text}

\* the step before the last write was a 'download:' of run_bootrom_stage
AfterBootromDownload ==
    /\ phases_done = 0
    /\ last.kind = "data"
    /\ Len(sent) >= 2
    /\ sent[Len(sent) - 1].text = "download:"

\* C1: in run_bootrom_stage the data frame written after
\* 'download:<bl2_size:08x>' carries exactly bl2_size bytes, also when the
\* item is longer than bl2_size.
C1_DownloadSizeTruncation ==
    AfterBootromDownload => FrameLen(last) = bl2_size

\* C2: 'setvar:burnsteps' of run_bl2_stage is written only when the identify
\* read just before reported SPL, and the first 'oem setvar burnsteps' of
\* run_tpl_stage only when the identify on the reacquired device reported TPL.
C2_StageMonotone ==
    [][ /\ ( /\ pc = "bl2_burnsteps" /\ step = 1 /\ sent' # sent )
            => send_cmd_identify(rx).stage = "SPL"
        /\ ( /\ pc = "tpl_setup" /\ step = 1 /\ sent' # sent
             /\ last'.text = "oem setvar burnsteps " )
            => send_cmd_identify(rx).stage = "TPL" ]_vars

\* C3: send_cmd(cmd, P) writes cmd once and reads one reply; it returns the
\* raw reply if and only if the reply has at least 4 bytes of which the
\* first 4 equal P, and raises the protocol error, RuntimeError, otherwise.
C3_PrefixDispatch ==
    pc # "send_cmd" =>
        LET reply == u_in.reply
            matches == /\ Len(reply) >= 4
                       /\ \A k \in 1..4 : reply[k] = u_in.expected_res[k]
        IN  /\ sent = <<Tag(u_in.cmd)>>
            /\ nread = 1
            /\ rx = reply
            /\ matches <=> (pc = "send_cmd_returned")
            /\ matches => u_out = [err |-> NoError, msg |-> reply]
            /\ ~matches => (pc = "raised" /\ exc = "RuntimeError")

\* C4: do_adnl_burn returns normally only when run_bootrom_stage,
\* run_bl2_stage and run_tpl_stage have all run to completion.
C4_ReturnsOnlyWhenComplete ==
    pc = "returned" => phases_done = 3

\* C5: once a step of the session has raised, nothing more is written to
\* bulk-OUT or read from bulk-IN and the bus is not polled again.
C5_AbortOnError ==
    [][ fault # NoError => /\ sent' = sent
                           /\ nread' = nread
                           /\ polled' = polled ]_vars

\* the checksum of the first partition was refused: the session has raised,
\* the second partition is not written and reboot is not sent
C5_Witness ==
    /\ pc = "raised" /\ fault = "RuntimeError" /\ exc = "RuntimeError"
    /\ reset
    /\ phases_done = 2
    /\ last.kind = "bytes" /\ last.text = "<sum>"
    /\ Cardinality(Where("mwrite:verify=addsum")) = 1
    /\ Where("reboot") = {}

\* C6: when run_bl2_stage leaves its loop, every CBW with end = 0 had one
\* 'setvar:checksum', and the data bytes written add up to the sum of the
\* size fields of those CBWs.
C6_CbwLoop ==
    pc = "bl2_return" =>
        /\ Cardinality(Where("setvar:checksum")) = ncbw
        /\ Cardinality(Where("getvar:cbw")) = ncbw + 1
        /\ bl2_sent = bl2_want

\* the first identify of do_adnl_burn has just been answered with stage SPL
FirstIdentifySPL ==
    /\ nread = 1
    /\ sent = <<Tag(IdentifyCmd)>>
    /\ send_cmd_identify(rx) = [err |-> NoError, stage |-> "SPL"]

\* C7: when the first identify of do_adnl_burn reports SPL, do_adnl_burn
\* raises RuntimeError and no further command is written.
C7_InitialSplRejected ==
    /\ [](FirstIdentifySPL => (pc = "raised" /\ exc = "RuntimeError"))
    /\ [][FirstIdentifySPL => (sent' = sent /\ nread' = nread)]_vars

C7_Witness == FirstIdentifySPL /\ pc = "raised"

\* the steps of is_secureboot_enabled, run_bootrom_stage and run_bl2_stage
RomAndBl2Steps ==
    {"sb_identify", "feat_identify", "feat_page", "fid_identify", "fid_page",
     "rom_probe", "downloadsize", "download", "send_spl", "rom_boot",
     "bl2_identify", "bl2_burnsteps", "cbw", "bl2_download", "bl2_data",
     "bl2_checksum", "bl2_sum", "bl2_return"}

\* the steps of run_tpl_stage after its device was found
TplSteps ==
    {"tpl_identify", "tpl_setup", "tpl_items", "tpl_reset", "mwrite",
     "mwrite_verify", "part_chunk", "part_sum", "verify_send", "verify_poll",
     "part_return"}

\* C8: when the first identify reports TPL, 'reboot-romusb' is written, the
\* device taken up again has another address than the one recorded, that
\* address becomes the recorded one, the phases run on the endpoints of that
\* device, and run_tpl_stage waits for an address other than the recorded
\* one; when the first identify reports ROM, 'reboot-romusb' is not written.
C8_DeviceFoundInTpl ==
    /\ stage = "ROM" => Where("reboot-romusb") = {}
    /\ (stage = "TPL" /\ pc \notin {"reboot_romusb", "raised"})
           => Where("reboot-romusb") = {2}
    /\ (stage = "TPL" /\ pc = "rom_eps")
           => (dev # None /\ dev[1] # dev_addr_rom_stage)
    /\ pc \in RomAndBl2Steps \cup {"wait_tpl"}
           => /\ ep = dev
              /\ dev_addr_rom_stage = dev[1]
              /\ Len(sent) > (IF stage = "TPL" THEN 2 ELSE 1) => last.dev = ep
    /\ pc = "tpl_eps"
           => /\ dev # None /\ dev[1] # dev_addr_rom_stage
              /\ ep # None /\ ep[1] = dev_addr_rom_stage
    /\ pc \in TplSteps
           => /\ ep = dev /\ ep[1] # dev_addr_rom_stage
              /\ pc # "tpl_identify" => last.dev = ep

\* a session that began with a device in TPL has run to its end
C8_Witness ==
    /\ stage = "TPL"
    /\ pc = "returned" /\ phases_done = 3
    /\ Where("reboot-romusb") = {2}
    /\ dev_addr_rom_stage # 5

\* the poll result d is no device or a device at the address addr
Skipped(d, addr) == d = None \/ d[1] = addr

\* C9: wait_for_device(last_address) returns the first polled device whose
\* address differs from last_address; every poll before it found no device
\* or a device at last_address and was followed by one sleep.
C9_Reacquire ==
    /\ pc \in {"wait_rom", "wait_tpl"}
           => /\ \A k \in 1..Len(polled) : Skipped(polled[k], dev_addr_rom_stage)
              /\ sleeps = Len(polled)
    /\ (pc \in {"rom_eps", "tpl_eps"} /\ polled # <<>>)
           => /\ dev = polled[Len(polled)]
              /\ ~Skipped(dev, dev_addr_rom_stage)
              /\ \A k \in 1..(Len(polled) - 1) :
                     Skipped(polled[k], dev_addr_rom_stage)
              /\ sleeps = Len(polled) - 1

\* the bus showed nothing twice, then the device at the old address 5, then
\* the device at address 9
C9_Witness ==
    /\ pc = "tpl_eps"
    /\ dev_addr_rom_stage = 5
    /\ polled = <<None, None, <<5>>, <<9>>>>
    /\ dev = <<9>>
    /\ sleeps = 3

\* C10: after 'oem verify' every INFO read is followed by one sleep and
\* another read; the first prefix that is not INFO ends the poll: OKAY lets
\* tpl_burn_partition go on to return, anything else raises the verification
\* error, RuntimeError.
C10_VerifyOutcome ==
    /\ pc = "verify_poll"
           => /\ \A k \in 1..Len(vseen) : vseen[k] = ADNL_REPLY_INFO
              /\ sleeps = Len(vseen)
    /\ vseen # <<>> /\ pc # "verify_poll"
           => /\ \A k \in 1..(Len(vseen) - 1) : vseen[k] = ADNL_REPLY_INFO
              /\ sleeps = Len(vseen) - 1
              /\ vseen[Len(vseen)] # ADNL_REPLY_INFO
              /\ vseen[Len(vseen)] = ADNL_REPLY_OKAY <=> pc = "part_return"
              /\ vseen[Len(vseen)] # ADNL_REPLY_OKAY
                     => (pc = "raised" /\ exc = "RuntimeError")

WhereTag(text, code) == {k \in 1..Len(sent) : sent[k] = [text |-> text, code |-> code]}

\* do_adnl_burn has returned after its three stages
Completed == pc = "returned" /\ phases_done = 3

\* C12: a session that ran to its end has written 'boot' once, the
\* burnsteps transaction with 0xC0040003 once, 'oem mwrite' once for every
\* PARTITION item and for no other item, and 'reboot' once, as its last
\* command, when reset was asked for and not at all otherwise.
C12_CommandCounts ==
    Completed =>
        /\ Cardinality(Where("boot")) = 1
        /\ Cardinality(WhereTag("<burnstep>", BOOTROM_BURNSTEPS_3.lo)) = 1
        /\ \A k \in WhereTag("<burnstep>", BOOTROM_BURNSTEPS_3.lo) :
               k > 1 /\ sent[k - 1].text = "setvar:burnsteps"
        /\ \A i \in 1..Len(Items) :
               Cardinality(WhereTag(MwriteCmd(i).text, i))
                   = IF Items[i].main = "PARTITION" THEN 1 ELSE 0
        /\ Cardinality(Where(MwriteCmd(1).text))
               = Cardinality({i \in 1..Len(Items) : Items[i].main = "PARTITION"})
        /\ reset => Where("reboot") = {Len(sent)}
        /\ ~reset => Where("reboot") = {}

\* a session without reset has ended: both partitions were written and the
\* last command is not 'reboot'
C12_Witness ==
    /\ Completed /\ ~reset
    /\ Cardinality(Where(MwriteCmd(1).text)) = 2
    /\ Where("reboot") = {}
    /\ sent[Len(sent)].text = "oem verify "

\* the steps of run_bootrom_stage and the steps of the loop of run_bl2_stage
BootromSteps == {"rom_probe", "downloadsize", "download", "send_spl", "rom_boot"}
Bl2LoopSteps == {"cbw", "bl2_download", "bl2_data", "bl2_checksum", "bl2_sum",
                 "bl2_return"}

\* the sub type of the USB item a stage takes: encrypted or plain
Picked(plain) == IF has_secureboot # 0 THEN plain \o "_ENC" ELSE plain

\* the family id in the chip-info page read last
FamilyRead == rx[9] + 256 * rx[10]

\* C13: the secure-boot status is settled once, before run_bootrom_stage,
\* as FEAT masked with the bit of the family (bit 4 for T5, bit 0 for A1);
\* run_bootrom_stage takes USB/DDR_ENC and run_bl2_stage USB/UBOOT_ENC when
\* it is set, USB/DDR and USB/UBOOT when it is not, and the data frames
\* come from those items.
C13_SecurebootSelection ==
    /\ [](/\ (pc = "rom_probe" /\ step = 1)
               => (has_secureboot # 0)
                    = \/ FamilyRead = 52 /\ feat \in {16, 17}
                      \/ FamilyRead = 44 /\ feat \in {1, 17}
          /\ pc \in BootromSteps
               => (Items[item].main = "USB" /\ Items[item].sub = Picked("DDR"))
          /\ pc \in Bl2LoopSteps
               => (Items[item].main = "USB" /\ Items[item].sub = Picked("UBOOT"))
          /\ (last.kind = "data" /\ phases_done = 0)
               => Items[last.buf.item].sub = Picked("DDR")
          /\ (last.kind = "data" /\ phases_done = 1)
               => Items[last.buf.item].sub = Picked("UBOOT"))
    /\ [][(pc \in BootromSteps \cup Bl2LoopSteps
                     \cup {"bl2_identify", "bl2_burnsteps"})
             => has_secureboot' = has_secureboot]_vars

\* a T5 with FEAT 0x10: the window sent in run_bl2_stage is of USB/UBOOT_ENC
\* after USB/DDR_ENC went out in run_bootrom_stage
C13_Witness ==
    /\ feat = 16 /\ has_secureboot = 16
    /\ phases_done = 1 /\ pc = "bl2_checksum"
    /\ last.kind = "data" /\ Items[last.buf.item].sub = "UBOOT_ENC"
    /\ pos[item_get("USB", "DDR_ENC")] > 0
    /\ pos[item_get("USB", "DDR")] = 0

(***************************************************************************)
(* adnl_checksum on its own: buffers B1 of whole words and B2 of any       *)
(* length, of bytes that make the sum pass 2^32.                           *)
(***************************************************************************)
ByteSamples == {0, 255}
WordLens == {0, 4, 8}
TailLens == 0..5

\* the buffer that holds the bytes s
Bytes(s) == [item |-> 0, off |-> 0, len |-> Len(s), bytes |-> s]

InitChecksum ==
    /\ pc = "adnl_checksum"
    /\ reset = FALSE /\ erase_code = 0
    /\ Fresh
    /\ \E n1 \in WordLens, n2 \in TailLens :
         u_in \in [b1 : [1..n1 -> ByteSamples], b2 : [1..n2 -> ByteSamples]]
    /\ u_out = <<>>

adnl_checksum_call ==
    /\ pc = "adnl_checksum"
    /\ u_out' = [first |-> adnl_checksum(Bytes(u_in.b1)),
                 second |-> adnl_checksum(Bytes(u_in.b2)),
                 whole |-> adnl_checksum(Bytes(u_in.b1 \o u_in.b2)),
                 padded |-> adnl_checksum(Bytes(u_in.b1 \o <<0>>))]
    /\ Go("adnl_checksum_returned")
    /\ UNCHANGED <<prog, pos, loop, io, obs, u_in>>

NextChecksum == adnl_checksum_call

SpecChecksum == InitChecksum /\ [][NextChecksum]_vars

\* (a + b) mod 2^32 of two values below 2^32 kept as 16-bit halves
AddMod32(a, b) ==
    [lo |-> (a.lo + b.lo) % 65536,
     hi |-> (a.hi + b.hi + (a.lo + b.lo) \div 65536) % 65536]

\* C14: for B1 of whole words, adnl_checksum(B1 || 0x00) = adnl_checksum(B1)
\* and adnl_checksum(B1 || B2) = (adnl_checksum(B1) + adnl_checksum(B2))
\* mod 2^32.
C14_AddsumLaw ==
    pc = "adnl_checksum_returned" =>
        /\ u_out.padded = u_out.first
        /\ u_out.whole = AddMod32(u_out.first, u_out.second)

\* the two sums add up to 2^32 or more and B2 ends in a partial word
C14_Witness ==
    /\ pc = "adnl_checksum_returned"
    /\ Len(u_in.b1) = 8 /\ Len(u_in.b2) = 5
    /\ u_out.first.hi + u_out.second.hi >= 65536
    /\ u_out.whole.hi < 65536

(***************************************************************************)
(* CBW on its own: a 32-byte record is built from its fields and parsed.   *)
(* The u32 fields stay below 2^31.                                         *)
(***************************************************************************)
MagicSamples == {AMLC, <<65, 77, 76, 83>>, <<97, 109, 108, 99>>, <<65, 77, 76, 255>>}
U32Samples == {0, 1, 511, 65536, 16909060, 2147483647}

InitCBW ==
    /\ pc = "CBW"
    /\ reset = FALSE /\ erase_code = 0
    /\ Fresh
    /\ u_in \in [magic : MagicSamples, seq : {0, 7}, size : U32Samples,
                offs : U32Samples, nck : {0, 1}, end : {0, 1, 255}]
    /\ u_out = <<>>

CBW_call ==
    /\ pc = "CBW"
    /\ LET msg == BuildCBW(u_in.magic, u_in.seq, u_in.size, u_in.offs,
                           u_in.nck, u_in.end)
           cbw == CBW(msg)
       IN  /\ rx' = msg
           /\ IF cbw.err # NoError
              THEN Fail(cbw.err) /\ UNCHANGED u_out
              ELSE Go("CBW_returned") /\ u_out' = cbw
    /\ UNCHANGED <<prog, pos, loop, sent, last, nread, obs, u_in>>

NextCBW == CBW_call

SpecCBW == InitCBW /\ [][NextCBW]_vars

\* C15: a 32-byte CBW built with magic "AMLC" parses to the size, offset
\* and end it was built from; with any other magic CBW(...) raises and
\* there is no CBW: RuntimeError when the magic is text, UnicodeDecodeError
\* when it is not UTF-8.
C15_CbwRoundTrip ==
    pc # "CBW" =>
        /\ Len(rx) = 32
        /\ u_in.magic = AMLC
             => /\ pc = "CBW_returned"
                /\ u_out.size = u_in.size
                /\ u_out.offs = u_in.offs
                /\ u_out.end = u_in.end
        /\ u_in.magic # AMLC
             => /\ pc = "raised" /\ u_out = <<>>
                /\ exc = (IF decode(u_in.magic).err = NoError
                          THEN "RuntimeError" ELSE "UnicodeDecodeError")

\* a record whose four bytes of size and of offset all differ, with the
\* checksum byte unlike the end byte
C15_Witness ==
    /\ pc = "CBW_returned"
    /\ u_in.size = 16909060 /\ u_in.offs = 2147483647
    /\ u_in.nck = 0 /\ u_in.end = 255
    /\ u_out.end = 255

\* C16: in tpl_burn_partition, when the chunks of a DATAOUT<X>:<Y> request
\* have been written, the data written is the X bytes of the partition that
\* start at Y; 'oem verify' is reached only after a reply that begins with
\* OKAY.
C16_PartitionBurnLoop ==
    /\ (pc = "part_sum" /\ buf_offs > 0)
          => /\ last.kind = "data"
             /\ last.buf.item = item
             /\ last.buf.off + last.buf.len = buf.off + buf_offs
    /\ pc = "verify_send" => StartsWith(rx, ADNL_REPLY_OKAY)

\* C17: in run_bl2_stage the chunk written after 'download:<len:08x>' has
\* the length that frame announced, and the four bytes written after
\* 'setvar:checksum' are the little-endian addsum of the window read for
\* the CBW.
C17_WindowChecksum ==
    [][ /\ (pc = "bl2_data" /\ sent' # sent)
             => /\ last.text = "download:"
                /\ last'.kind = "data"
                /\ FrameLen(last') = ParseHex(last.arg).val
        /\ (pc = "bl2_sum" /\ sent' # sent)
             => last'.arg = to_bytes(adnl_checksum(buf)) ]_vars

\* what run_bootrom_stage is to write, in order, as the log keeps it
BootromOrder ==
    LET t(text, code) == [text |-> text, code |-> code]
    IN  << t("getvar:serialno", 0),
           t("getvar:getchipinfo-", 1), t("getvar:getchipinfo-", 0),
           t("getvar:getchipinfo-", 1), t("getvar:getchipinfo-", 2),
           t("getvar:getchipinfo-", 3),
           t("setvar:burnsteps", 0), t("<burnstep>", 0),
           t("getvar:getchipinfo-", 1),
           t("setvar:burnsteps", 0), t("<burnstep>", 1),
           t("getvar:downloadsize", 0), t("download:", 0), t("<data>", 0),
           t("setvar:burnsteps", 0), t("<burnstep>", 2),
           t("boot", 0) >>

\* the log from position k on
LogFrom(k) == SubSeq(sent, k, Len(sent))

\* C18: run_bootrom_stage writes its commands in the fixed order, from
\* 'getvar:serialno' to 'boot'; the argument of every burnsteps is four
\* little-endian bytes written right after 'setvar:burnsteps'; a step goes
\* on only when 'setvar:burnsteps' and 'download:' were answered DATA and
\* every other frame OKAY, so that 'boot' follows expected replies only.
C18_BootromOrder ==
    /\ []( /\ (phases_done = 0 /\ Where("getvar:serialno") # {})
                => \E k \in Where("getvar:serialno") :
                      /\ Len(LogFrom(k)) <= Len(BootromOrder)
                      /\ LogFrom(k) = SubSeq(BootromOrder, 1, Len(LogFrom(k)))
           /\ pc = "bl2_identify"
                => \E k \in Where("getvar:serialno") : LogFrom(k) = BootromOrder )
    /\ [][ (pc \in BootromSteps /\ sent' # sent)
             => /\ last'.text = "<burnstep>"
                    => /\ last.text = "setvar:burnsteps"
                       /\ last'.arg = <<sent'[Len(sent')].code, 0, 4, 192>>
                /\ pc' # "raised"
                    => adnl_get_prefix(rx').text
                         = IF last'.text \in {"setvar:burnsteps", "download:"}
                           THEN ADNL_REPLY_DATA ELSE ADNL_REPLY_OKAY ]_vars

\* 'boot' has been acknowledged: the whole of the order is in the log
C18_Witness ==
    /\ pc = "bl2_identify" /\ phases_done = 1
    /\ sent[Len(sent)].text = "boot"
    /\ Cardinality(Where("<burnstep>")) = 3
    /\ adnl_get_prefix(rx).text = ADNL_REPLY_OKAY

\* what run_tpl_stage is to write before the first partition
TplOrder ==
    << [text |-> "oem setvar burnsteps ", code |-> TPL_BURNSTEPS_0.lo],
       [text |-> "oem setvar burnsteps ", code |-> TPL_BURNSTEPS_1.lo],
       [text |-> "oem disk_initial ", code |-> erase_code],
       [text |-> "oem setvar burnsteps ", code |-> TPL_BURNSTEPS_2.lo] >>

\* the positions of the 'oem mwrite' commands in the log
Mwrites == Where(MwriteCmd(1).text)

\* the PARTITION items of the image
Partitions == {i \in 1..Len(Items) : Items[i].main = "PARTITION"}

\* the last frame written was 'oem verify' and the last reply read is OKAY
Verified == last.text = "oem verify " /\ adnl_get_prefix(rx).text = ADNL_REPLY_OKAY

\* C19: the first 'oem mwrite' comes right after the four set-up commands
\* of run_tpl_stage, written in their order and each answered OKAY; the
\* partitions are written in container order, the next 'oem mwrite' only
\* when the partition before it was verified with OKAY; 'reboot' is written
\* only when the last partition was verified.
C19_TplOrder ==
    /\ []( /\ \A m \in Mwrites :
                (\A k \in Mwrites : m <= k)
                   => (m > 4 /\ SubSeq(sent, m - 4, m - 1) = TplOrder)
           /\ \A k1, k2 \in Mwrites :
                k1 < k2 => /\ sent[k1].code < sent[k2].code
                           /\ \E v \in Where("oem verify ") : k1 < v /\ v < k2
           /\ \A k \in Mwrites :
                {i \in Partitions : i < sent[k].code}
                    = {sent[j].code : j \in {j \in Mwrites : j < k}} )
    /\ [][ /\ (pc = "tpl_setup" /\ pc' # "raised")
                => adnl_get_prefix(rx').text = ADNL_REPLY_OKAY
           /\ (pc = "mwrite" /\ sent' # sent /\ Mwrites # {}) => Verified
           /\ (pc = "tpl_reset" /\ sent' # sent)
                => /\ last'.text = "reboot"
                   /\ Verified
                   /\ {sent[k].code : k \in Mwrites} = Partitions ]_vars

\* the second partition's 'oem mwrite' has been acknowledged after the
\* first partition was verified
C19_Witness ==
    /\ pc = "mwrite_verify"
    /\ Cardinality(Mwrites) = 2
    /\ sent[Len(sent)] = Tag(MwriteCmd(7))
    /\ sent[Len(sent) - 1].text = "oem verify "

\* the buffer read for the request in hand holds fewer bytes than the
\* device asked for
ShortRead == buf.item # 0 /\ buf.len < size + buf_offs

\* C20: when the window of a CBW or the range of a DATAOUT request reaches
\* past the end of the item, so that fewer bytes are read than were asked
\* for, the session raises; it does not go on to send the short buffer and
\* a checksum.
C20_ShortReadIsFatal == ShortRead => pc = "raised"

(***************************************************************************)
(* get_chipinfo on its own: one call with a page, an offset and a number   *)
(* of bytes.                                                               *)
(***************************************************************************)
PageSamples == {-1, 0, 1, 7, 8}
OffsetSamples == {0, 4, 36, 60}
NbytesSamples == {0, 4, 28, 64, 65}

InitChipinfo ==
    /\ pc = "get_chipinfo"
    /\ reset = FALSE /\ erase_code = 0
    /\ Fresh
    /\ u_in \in [page : PageSamples, offset : OffsetSamples, nbytes : NbytesSamples]
    /\ u_out = <<>>

\* get_chipinfo from its command on
get_chipinfo_page ==
    /\ pc = "get_chipinfo_page"
    /\ \E msg \in Chipinfo1Replies :
         LET r == get_chipinfo(msg, u_in.offset, u_in.nbytes)
         IN  /\ Xfer(ChipinfoCmd(u_in.page)[1].f, msg)
             /\ IF r.err # NoError
                THEN Fail(r.err) /\ UNCHANGED u_out
                ELSE Go("get_chipinfo_returned") /\ u_out' = r.val
    /\ UNCHANGED <<prog, pos, loop, obs, u_in>>

NextChipinfo == get_chipinfo_identify \/ get_chipinfo_page

SpecChipinfo == InitChipinfo /\ [][NextChipinfo]_vars

\* identify has just been answered, without an error, with this stage
Identified(stg) ==
    /\ sent = <<Tag(IdentifyCmd)>> /\ nread = 1
    /\ send_cmd_identify(rx) = [err |-> NoError, stage |-> stg]

\* C21: get_chipinfo raises RuntimeError and writes no
\* 'getvar:getchipinfo-<page>' when identify reports TPL or the page is
\* outside 0..7; in ROM or SPL with a page in 0..7 it writes that command
\* once.
C21_ChipinfoPreconditions ==
    /\ (Identified("TPL") \/ (\E stg \in {"ROM", "SPL"} : Identified(stg)
                                /\ u_in.page \notin 0..7))
          => (pc = "raised" /\ exc = "RuntimeError")
    /\ (\E stg \in {"ROM", "SPL"} : Identified(stg) /\ u_in.page \in 0..7)
          => pc = "get_chipinfo_page"
    /\ Where("getvar:getchipinfo-") # {}
          => /\ u_in.page \in 0..7
             /\ sent = <<Tag(IdentifyCmd),
                         [text |-> "getvar:getchipinfo-", code |-> u_in.page]>>
             /\ last.arg = DecStr(u_in.page)
    /\ pc = "get_chipinfo_returned" => Where("getvar:getchipinfo-") = {2}

\* page 7 was asked for in SPL and the command went out
C21_Witness ==
    /\ pc = "get_chipinfo_returned"
    /\ u_in.page = 7
    /\ sent[2] = [text |-> "getvar:getchipinfo-", code |-> 7]
    /\ last.arg = <<55>>

(***************************************************************************)
(* is_secureboot_enabled on its own, against one chip: the family and the  *)
(* FEAT word of its chip-info page 1 are given.                            *)
(***************************************************************************)
FamilySamples == {SocFamily[n] : n \in DOMAIN SocFamily} \cup {99}
FeatSamples == {0, 1, 16, 17}

InitSecureboot ==
    /\ pc = "sb_identify"
    /\ reset = FALSE /\ erase_code = 0
    /\ Fresh
    /\ u_in \in [family : FamilySamples, feat : FeatSamples]
    /\ u_out = <<>>

NextSecureboot ==
    \/ is_secureboot_enabled_identify
    \/ get_chipinfo_identify
    \/ adnl_get_feat
    \/ adnl_get_soc_family_id

SpecSecureboot == InitSecureboot /\ [][NextSecureboot]_vars

\* the chip-info page with the family id has just been read, after FEAT
FamilyAnswered ==
    /\ nread = 5 /\ Where("getvar:getchipinfo-") = {3, 5}
    /\ StartsWith(rx, ADNL_REPLY_OKAY) /\ Len(rx) = 68

\* C22: is_secureboot_enabled raises, and has_secureboot gets no value,
\* when identify reports a stage other than ROM and when the family is SC2,
\* T7 or S4, which have no mask; for A1, C1 and C2 the result is truthy
\* exactly when bit 0x01 of FEAT is set, for T5 and T5D when bit 0x10 is.
C22_SecurebootQuery ==
    /\ (\E stg \in {"SPL", "TPL"} : Identified(stg))
          => (pc = "raised" /\ exc = "RuntimeError" /\ has_secureboot = 0)
    /\ Identified("ROM") => pc = "feat_identify"
    /\ (FamilyAnswered /\ FamilyRead \in {50, 54, 55})
          => (pc = "raised" /\ exc = "KeyError" /\ has_secureboot = 0)
    /\ (FamilyAnswered /\ FamilyRead \in {44, 48, 51})
          => /\ pc = "rom_probe" /\ feat = u_in.feat
             /\ (has_secureboot # 0) = (feat % 2 = 1)
    /\ (FamilyAnswered /\ FamilyRead \in {52, 53})
          => /\ pc = "rom_probe" /\ feat = u_in.feat
             /\ (has_secureboot # 0) = ((feat \div 16) % 2 = 1)
    /\ pc = "rom_probe" => (FamilyAnswered /\ FamilyRead \in {44, 48, 51, 52, 53})

\* an S4 chip with both bits of FEAT set: the query ends in KeyError
C22_Witness ==
    /\ FamilyAnswered /\ FamilyRead = 55 /\ feat = 17
    /\ pc = "raised" /\ exc = "KeyError"

(***************************************************************************)
(* The legacy protocol (AmlogicSoC): each method is called once on a fresh *)
(* object.  sent is the log of what went to the device: control transfers  *)
(* and runs of bulk transfers.  The caller's payload is known by its       *)
(* length; a slice of it is [off, len].                                    *)
(***************************************************************************)
REQ_WR_LARGE_MEM == 17
REQ_RD_LARGE_MEM == 18
MAX_LARGE_BLOCK_COUNT == 65535

\* int(n / d), plus one when n % d > 0
BlocksOf(n, d) == (n \div d) + (IF n % d > 0 THEN 1 ELSE 0)

\* pack('<IIII', address, length, 0, 0)
pack_IIII(address, length) ==
    U32LE(address) \o U32LE(length) \o U32LE(0) \o U32LE(0)

\* self.dev.ctrl_transfer(0x40, bRequest, wValue, wIndex, data)
CtrlOut(bRequest, wValue, wIndex, data) ==
    [op |-> "ctrl", bmRequestType |-> 64, bRequest |-> bRequest,
     wValue |-> wValue, wIndex |-> wIndex, data |-> data]

\* self.dev.ctrl_transfer(0xc0, bRequest, wValue, wIndex, data_or_wLength):
\* data holds the length asked for, or the buffer handed over
CtrlIn(bRequest, wValue, wIndex, data_or_wLength) ==
    [op |-> "ctrl", bmRequestType |-> 192, bRequest |-> bRequest,
     wValue |-> wValue, wIndex |-> wIndex, data |-> data_or_wLength]

\* count bulk transfers in a row, of len bytes each: the bytes start at src
\* of the payload, with the zeros added to it, and the last pad of them
\* are of those zeros
BulkRun(op, count, len, src, pad) ==
    [op |-> op, count |-> count, len |-> len, src |-> src, pad |-> pad]

\* _writeLargeMemory(address, data, blockLength, appendZeros): what it
\* sends, and the error it ends in
_writeLargeMemory(address, data, blockLength, appendZeros) ==
    LET append == IF appendZeros THEN data.len % blockLength ELSE 0
        length == data.len + append
        blockCount == BlocksOf(length, blockLength)
        whole == length \div blockLength
        rest == length % blockLength
        full == IF whole = 0 THEN <<>>
                ELSE <<BulkRun("write", whole, blockLength, data.off,
                               IF whole * blockLength > data.len
                               THEN whole * blockLength - data.len ELSE 0)>>
        tail == IF rest = 0 THEN <<>>
                ELSE <<BulkRun("write", 1, rest, data.off + whole * blockLength,
                               IF whole * blockLength > data.len
                               THEN rest ELSE length - data.len)>>
    IN  IF ~appendZeros /\ data.len % blockLength # 0
        THEN [err |-> "ValueError", ops |-> <<>>]
        ELSE [err |-> NoError,
              ops |-> <<CtrlOut(REQ_WR_LARGE_MEM, blockLength, blockCount,
                                pack_IIII(address, length))>> \o full \o tail]

\* the loop of writeLargeMemory from offset on
RECURSIVE writeLargeMemory_loop(_, _, _, _, _, _)
writeLargeMemory_loop(address, len, blockLength, appendZeros, offset, transferCount) ==
    IF transferCount <= 0 THEN [err |-> NoError, ops |-> <<>>]
    ELSE LET writeLength ==
                 IF offset + MAX_LARGE_BLOCK_COUNT * blockLength > len
                 THEN len - offset
                 ELSE MAX_LARGE_BLOCK_COUNT * blockLength
             w == _writeLargeMemory(address + offset,
                                    [off |-> offset, len |-> writeLength],
                                    blockLength, appendZeros)
             more == writeLargeMemory_loop(address, len, blockLength, appendZeros,
                                           offset + writeLength, transferCount - 1)
         IN  IF w.err # NoError THEN w
             ELSE [err |-> more.err, ops |-> w.ops \o more.ops]

\* writeLargeMemory(address, data, blockLength, appendZeros), data of len
\* bytes: what it sends, and the error it ends in
writeLargeMemory(address, len, blockLength, appendZeros) ==
    writeLargeMemory_loop(address, len, blockLength, appendZeros, 0,
        BlocksOf(BlocksOf(len, blockLength), MAX_LARGE_BLOCK_COUNT))

\* _readLargeMemory(address, length, blockLength, appendZeros): what it
\* sends, the error it ends in, and the number of bytes it returns from a
\* device that answers each read in full
_readLargeMemory(address, length, blockLength, appendZeros) ==
    LET padded == IF appendZeros THEN length + (length % blockLength) ELSE length
        blockCount == BlocksOf(padded, blockLength)
    IN  IF ~appendZeros /\ length % blockLength # 0
        THEN [err |-> "ValueError", ops |-> <<>>, n |-> 0]
        ELSE [err |-> NoError,
              ops |-> <<CtrlOut(REQ_RD_LARGE_MEM, blockLength, blockCount,
                                pack_IIII(address, padded))>>
                      \o (IF blockCount = 0 THEN <<>>
                          ELSE <<BulkRun("read", blockCount, blockLength, 0, 0)>>),
              n |-> blockCount * blockLength]

\* the loop of readLargeMemory from offset on
RECURSIVE readLargeMemory_loop(_, _, _, _, _, _)
readLargeMemory_loop(address, length, blockLength, appendZeros, offset, transferCount) ==
    IF transferCount <= 0 THEN [err |-> NoError, ops |-> <<>>, n |-> 0]
    ELSE LET readLength ==
                 IF offset + MAX_LARGE_BLOCK_COUNT * blockLength > length
                 THEN length - offset
                 ELSE MAX_LARGE_BLOCK_COUNT * blockLength
             r == _readLargeMemory(address + offset, readLength,
                                   blockLength, appendZeros)
             more == readLargeMemory_loop(address, length, blockLength, appendZeros,
                                          offset + readLength, transferCount - 1)
         IN  IF r.err # NoError THEN r
             ELSE [err |-> more.err, ops |-> r.ops \o more.ops, n |-> r.n + more.n]

\* readLargeMemory(address, length, blockLength, appendZeros)
readLargeMemory(address, length, blockLength, appendZeros) ==
    readLargeMemory_loop(address, length, blockLength, appendZeros, 0,
        BlocksOf(BlocksOf(length, blockLength), MAX_LARGE_BLOCK_COUNT))

\* the value _amlsChecksum reads at offset, two or more bytes being left:
\* unpack('<I') of four bytes, of three bytes filled up with a zero and
\* cut to 24 bits, or unpack('<H') of two bytes
_amlsChecksum_val(data, offset) ==
    LET left == Len(data) - offset
        b(k) == IF k < left THEN data[offset + k + 1] ELSE 0
    IN  IF left >= 4 THEN [lo |-> b(0) + 256 * b(1), hi |-> b(2) + 256 * b(3)]
        ELSE IF left >= 3 THEN [lo |-> b(0) + 256 * b(1), hi |-> (b(2) + 256 * b(3)) % 256]
        ELSE [lo |-> b(0) + 256 * b(1), hi |-> 0]

\* the loop of _amlsChecksum for the words a..b-1 of data (offset = 4 * a
\* and on): with one byte left, unpack('<B', data[offset]) is given an
\* integer and raises TypeError.  The words are added pairwise instead of
\* left to right: modulo 2^32 the sum is the same and the evaluation stays
\* shallow.
RECURSIVE _amlsChecksum_loop(_, _, _)
_amlsChecksum_loop(data, a, b) ==
    IF a >= b THEN [err |-> NoError, val |-> [lo |-> 0, hi |-> 0]]
    ELSE IF b = a + 1
    THEN IF Len(data) - 4 * a = 1
         THEN [err |-> "TypeError", val |-> [lo |-> 0, hi |-> 0]]
         ELSE [err |-> NoError, val |-> _amlsChecksum_val(data, 4 * a)]
    ELSE LET m == (a + b) \div 2
             l == _amlsChecksum_loop(data, a, m)
             r == _amlsChecksum_loop(data, m, b)
         IN  IF l.err # NoError THEN l
             ELSE IF r.err # NoError THEN r
             ELSE [err |-> NoError, val |-> AddMod32(l.val, r.val)]

\* _amlsChecksum(data)
_amlsChecksum(data) == _amlsChecksum_loop(data, 0, (Len(data) + 3) \div 4)

\* the buffers tried: every length up to two words and a tail, of bytes that
\* make the sum pass 2^32
AmlsBuffers == UNION {[1..n -> {1, 255}] : n \in 0..9}

REQ_WRITE_AMLC == 96
AMLC_AMLS_BLOCK_LENGTH == 512
AMLC_MAX_BLOCK_LENGTH == 16384
AMLC_MAX_TRANSFERT_LENGTH == 65536

\* _writeAMLCData(offset, data) when the device answers ack: what it sends
\* and the error it ends in.  data is the bytes hdr followed by len bytes of
\* the payload from off on.
_writeAMLCData(offset, data, ack) ==
    LET writeLength == Len(data.hdr) + data.len
        whole == writeLength \div AMLC_MAX_BLOCK_LENGTH
        rest == writeLength % AMLC_MAX_BLOCK_LENGTH
        full == IF whole = 0 THEN <<>>
                ELSE <<[op |-> "write", count |-> whole,
                        len |-> AMLC_MAX_BLOCK_LENGTH,
                        src |-> data.off, pad |-> 0, hdr |-> data.hdr]>>
        tail == IF rest = 0 THEN <<>>
                ELSE <<[op |-> "write", count |-> 1, len |-> rest,
                        src |-> IF whole = 0 THEN data.off
                                ELSE data.off + whole * AMLC_MAX_BLOCK_LENGTH
                                              - Len(data.hdr),
                        pad |-> 0,
                        hdr |-> IF whole = 0 THEN data.hdr ELSE <<>>]>>
    IN  [err |-> IF StartsWith(ack, ADNL_REPLY_OKAY) THEN NoError ELSE "ValueError",
         ops |-> <<CtrlOut(REQ_WRITE_AMLC, offset \div AMLC_AMLS_BLOCK_LENGTH,
                           writeLength - 1, <<>>)>> \o full \o tail]

\* pack('<4sBBBBII', b"AMLS", seq, 0, 0, 0, checksum, 0)
pack_AMLS(seq, checksum) ==
    <<65, 77, 76, 83, seq, 0, 0, 0>> \o to_bytes(checksum) \o <<0, 0, 0, 0>>

\* the payloads tried with writeAMLCData, by their length: n stands for
\* the n bytes AmlcBytes(n)
AmlcLengths == {0, 100, 512, 513, 16388, 65536, 66564, 131073, 131076}
AmlcBytes(n) == <<>> \o [k \in 1..n |-> (k % 251) + 1]
AmlcChecksums == [n \in AmlcLengths |-> _amlsChecksum(AmlcBytes(n))]

\* the acknowledgements tried: OKAY and FAIL in 16 bytes, and a bare OKAY
AmlcAcks ==
    {ADNL_REPLY_OKAY \o [k \in 1..12 |-> 0],
     ADNL_REPLY_FAIL \o [k \in 1..12 |-> 0],
     ADNL_REPLY_OKAY}

REQ_TPL_CMD == 48
REQ_BULKCMD == 52

\* a slip: a terminated command of 128 characters is let through
tplCommand_limit_off(subcode, command) ==
    LET terminated_cmd == command \o <<0>>
    IN  IF Len(terminated_cmd) > 128 THEN [err |-> "ValueError", ops |-> <<>>]
        ELSE [err |-> NoError,
              ops |-> <<CtrlOut(REQ_TPL_CMD, 0, subcode, terminated_cmd)>>]

\* tplCommand(subcode, command): what it sends, and the error it ends in
tplCommand(subcode, command) ==
    LET terminated_cmd == command \o <<0>>
    IN  IF Len(terminated_cmd) >= 128 THEN [err |-> "ValueError", ops |-> <<>>]
        ELSE [err |-> NoError,
              ops |-> <<CtrlOut(REQ_TPL_CMD, 0, subcode, terminated_cmd)>>]

\* bulkCmd(command, read_status) up to the reading of the status
bulkCmd(command) ==
    LET terminated_cmd == command \o <<0>>
    IN  IF Len(terminated_cmd) >= 128 THEN [err |-> "ValueError", ops |-> <<>>]
        ELSE [err |-> NoError,
              ops |-> <<CtrlOut(REQ_BULKCMD, 0, 2, command \o <<0>>)>>]

(***************************************************************************)
(* The other methods of AmlogicSoC.  An address or a register value is a   *)
(* 32-bit number kept as 16-bit halves [hi, lo], so that address >> 16 is  *)
(* hi and address & 0xffff is lo.  The time-outs are handed to the USB     *)
(* library as they are given and are left out.                             *)
(***************************************************************************)
REQ_WRITE_MEM == 1
REQ_READ_MEM == 2
REQ_MODIFY_MEM == 4
REQ_RUN_IN_ADDR == 5
REQ_IDENTIFY_HOST == 32
REQ_TPL_STAT == 49
REQ_WRITE_MEDIA == 50
REQ_READ_MEDIA == 51
REQ_PASSWORD == 53
REQ_NOP == 54
REQ_GET_AMLC == 80
FLAG_KEEP_POWER_ON == 16
WRITE_MEDIA_CHEKSUM_ALG_ADDSUM == 239

\* the small integer n as 16-bit halves
Halves(n) == [lo |-> n % 65536, hi |-> n \div 65536]

\* writeSimpleMemory(address, data): what it sends, and the error it ends in
writeSimpleMemory(address, data) ==
    IF Len(data) > 64 THEN [err |-> "ValueError", ops |-> <<>>]
    ELSE [err |-> NoError,
          ops |-> <<CtrlOut(REQ_WRITE_MEM, address.hi, address.lo, data)>>]

\* writeMemory(address, data): the loop from offset on, length bytes being
\* left
RECURSIVE writeMemory(_, _, _, _)
writeMemory(address, data, length, offset) ==
    IF length = 0 THEN [err |-> NoError, ops |-> <<>>]
    ELSE LET w == writeSimpleMemory(AddU(address, Halves(offset)),
                                    Slice(data, offset, offset + 64))
             more == IF length > 64
                     THEN writeMemory(address, data, length - 64, offset + 64)
                     ELSE [err |-> NoError, ops |-> <<>>]
         IN  IF w.err # NoError THEN w
             ELSE [err |-> more.err, ops |-> w.ops \o more.ops]

\* readSimpleMemory(address, length) when the device answers ret: what it
\* sends, the error it ends in and what it returns
readSimpleMemory(address, length, ret) ==
    IF length = 0 THEN [err |-> NoError, ops |-> <<>>, ret |-> <<>>]
    ELSE IF length > 64 THEN [err |-> "ValueError", ops |-> <<>>, ret |-> <<>>]
    ELSE [err |-> NoError,
          ops |-> <<CtrlIn(REQ_READ_MEM, address.hi, address.lo, length)>>,
          ret |-> ret]

\* readMemory(address, length) when the device answers ret: with 64 bytes or
\* more to read, data.append, which bytes does not have, raises
\* AttributeError before the first chunk is read
readMemory(address, length, ret) ==
    IF length = 0 THEN [err |-> NoError, ops |-> <<>>, ret |-> <<>>]
    ELSE IF length >= 64
    THEN [err |-> "AttributeError", ops |-> <<>>, ret |-> <<>>]
    ELSE readSimpleMemory(address, length, ret)

\* modifyMemory(opcode, address1, data, mask, address2)
modifyMemory(opcode, address1, data, mask, address2) ==
    [err |-> NoError,
     ops |-> <<CtrlOut(REQ_MODIFY_MEM, opcode, 0,
                       to_bytes(address1) \o to_bytes(data)
                       \o to_bytes(mask) \o to_bytes(address2))>>]

\* readReg(address) when the device answers reg: int.from_bytes(reg,
\* 'little') of the four bytes or fewer it returned
readReg(address, reg) ==
    LET r == readSimpleMemory(address, 4, reg)
        b(k) == IF k <= Len(reg) THEN reg[k] ELSE 0
    IN  [err |-> r.err, ops |-> r.ops,
         ret |-> [lo |-> b(1) + 256 * b(2), hi |-> b(3) + 256 * b(4)]]

writeReg(address, value) == modifyMemory(0, address, value, Zero, Zero)
maskRegAND(address, mask) == modifyMemory(1, address, Zero, mask, Zero)
maskRegOR(address, mask) == modifyMemory(2, address, Zero, mask, Zero)
maskRegNAND(address, mask) == modifyMemory(3, address, Zero, mask, Zero)
writeRegBits(address, mask, value) == modifyMemory(4, address, value, mask, Zero)
copyReg(source, dest) == modifyMemory(5, dest, Zero, Zero, source)
copyRegMaskAND(source, dest, mask) == modifyMemory(6, dest, Zero, mask, source)
memcpy(dest, src, n) == modifyMemory(7, src, n, Zero, dest)

\* run(address, keep_power): address | FLAG_KEEP_POWER_ON sets bit 4
run(address, keep_power) ==
    LET data == IF keep_power /\ (address.lo \div FLAG_KEEP_POWER_ON) % 2 = 0
                THEN [address EXCEPT !.lo = @ + FLAG_KEEP_POWER_ON]
                ELSE address
    IN  [err |-> NoError,
         ops |-> <<CtrlOut(REQ_RUN_IN_ADDR, address.hi, address.lo,
                           to_bytes(data))>>]

\* identify() when the device answers ret: the characters chr(x) of its bytes
identify(ret) ==
    [err |-> NoError, ops |-> <<CtrlIn(REQ_IDENTIFY_HOST, 0, 0, 8)>>, ret |-> ret]

\* tplStat(timeout) when the device answers ret
tplStat(ret) ==
    [err |-> NoError, ops |-> <<CtrlIn(REQ_TPL_STAT, 0, 0, 64)>>, ret |-> ret]

\* sendPassword(password): the ord() of its characters when it is a str, the
\* bytes themselves otherwise; a character and a byte are both their number
sendPassword(password) ==
    [err |-> NoError, ops |-> <<CtrlOut(REQ_PASSWORD, 0, 0, password)>>]

\* nop()
nop == [err |-> NoError, ops |-> <<CtrlOut(REQ_NOP, 0, 0, None)>>]

\* getBootAMLC() when the device answers data: unpack('<4s4xII', data[0:16])
\* needs the 16 bytes; the request is acknowledged with OKAY in 16 bytes and
\* (length, offset) returned
getBootAMLC(data) ==
    LET head == Slice(data, 0, 16)
        asked == <<CtrlOut(REQ_GET_AMLC, AMLC_AMLS_BLOCK_LENGTH, 0, None),
                   BulkRun("read", 1, AMLC_AMLS_BLOCK_LENGTH, 0, 0)>>
        word(k) == [lo |-> head[k + 1] + 256 * head[k + 2],
                    hi |-> head[k + 3] + 256 * head[k + 4]]
    IN  IF Len(head) # 16
        THEN [err |-> "struct.error", ops |-> asked, ret |-> <<>>]
        ELSE IF Slice(head, 0, 4) # AMLC
        THEN [err |-> "ValueError", ops |-> asked, ret |-> <<>>]
        ELSE [err |-> NoError,
              ops |-> Append(asked,
                             [op |-> "write", count |-> 1, len |-> 16, src |-> 0,
                              pad |-> 0,
                              hdr |-> ADNL_REPLY_OKAY \o [k \in 1..12 |-> 0]]),
              ret |-> <<word(8), word(12)>>]

\* readMedia(size, timeout) when the device answers ret; size is length here
readMedia(length, ret) ==
    LET block_length == 4096
        blocks == (block_length + length - 1) \div block_length
    IN  [err |-> NoError,
         ops |-> <<CtrlIn(REQ_READ_MEDIA, length, blocks,
                          to_bytes(Zero) \o to_bytes(Halves(length))
                          \o to_bytes(Zero) \o to_bytes(Zero)),
                   BulkRun("read", 1, length, 0, 0)>>,
         ret |-> ret]

\* writeMedia(data, ackLen, seq, retryTimes) when epout.write reports nbytes
\* bytes written: it returns nbytes == len(data)
writeMedia(data, ackLen, seq, retryTimes, nbytes) ==
    LET checksum == _amlsChecksum(data)
        controlData == to_bytes(Halves(retryTimes)) \o to_bytes(Halves(Len(data)))
                       \o to_bytes(Halves(seq)) \o to_bytes(checksum.val)
                       \o <<WRITE_MEDIA_CHEKSUM_ALG_ADDSUM % 256,
                            WRITE_MEDIA_CHEKSUM_ALG_ADDSUM \div 256,
                            ackLen % 256, ackLen \div 256>>
    IN  IF checksum.err # NoError
        THEN [err |-> checksum.err, ops |-> <<>>, ret |-> FALSE]
        ELSE [err |-> NoError,
              ops |-> <<CtrlOut(REQ_WRITE_MEDIA, 1, 65535,
                                controlData \o [k \in 1..(32 - Len(controlData)) |-> 0]),
                        BulkRun("write", 1, Len(data), 0, 0)>>,
              ret |-> (nbytes = Len(data))]

\* devRead(size, timeout) when the device answers ret; size is length here
devRead(length, ret) ==
    [err |-> NoError, ops |-> <<BulkRun("read", 1, length, 0, 0)>>, ret |-> ret]

\* bulkCmdStat(timeout) when the device answers ret
bulkCmdStat(ret) ==
    [err |-> NoError, ops |-> <<BulkRun("read", 1, 512, 0, 0)>>, ret |-> ret]

\* the commands tried: of 'a's, up to and past the limit
CommandLengths == {0, 1, 126, 127, 128, 200}
CommandArgs ==
    {[subcode |-> c, command |-> [k \in 1..n |-> 97], read_status |-> r] :
        c \in {1, 2}, n \in CommandLengths, r \in BOOLEAN}

\* the lengths tried with a block length: around one block and around one
\* and two full sub-transfers
LargeLengths(bl) ==
    {0, 3, bl, bl + bl \div 2, 3 * bl,
     MAX_LARGE_BLOCK_COUNT * bl - 1, MAX_LARGE_BLOCK_COUNT * bl,
     MAX_LARGE_BLOCK_COUNT * bl + 1, MAX_LARGE_BLOCK_COUNT * bl + bl,
     2 * MAX_LARGE_BLOCK_COUNT * bl, 2 * MAX_LARGE_BLOCK_COUNT * bl + 3 * bl}
LargeArgs ==
    {[address |-> a, length |-> n, blockLength |-> bl, appendZeros |-> z] :
        a \in {0, 16777216}, n \in LargeLengths(4) \cup LargeLengths(64),
        bl \in {4, 64}, z \in BOOLEAN}

(***************************************************************************)
(* The bus lists no, one or two devices with the Amlogic ids.  A device is *)
(* <<address, bus, port>>, port 0 standing for a port number that is not   *)
(* known.                                                                  *)
(***************************************************************************)
Devices == {<<a, b, p>> : a \in {5, 9}, b \in {1, 2}, p \in {0, 2, 3}}

\* the buses tried: no two devices share a bus and an address, or a bus and
\* a known port
Buses ==
    {<<>>} \cup {<<d>> : d \in Devices}
    \cup {b \in Devices \X Devices :
              /\ b[1] # b[2]
              /\ b[1][2] = b[2][2]
                   => (b[1][1] # b[2][1] /\ (b[1][3] # b[2][3] \/ b[1][3] = 0))}

\* reinit on an object that holds the address, bus and port of self: the
\* device it ends with, and the error it ends in
reinit(self, devs) ==
    LET all == {devs[k] : k \in DOMAIN devs}
        first == IF self[3] # 0
                 THEN find(devs, {d \in all : d[2] = self[2] /\ d[3] = self[3]})
                 ELSE find(devs, {d \in all : d[2] = self[2] /\ d[1] = self[1]})
        second == IF first = None THEN find(devs, all) ELSE first
    IN  [err |-> IF second = None THEN "ValueError" ELSE NoError, dev |-> second]

\* the addresses and register values tried: 0xd9000000, an address 16 bytes
\* below a multiple of 0x10000, and 0x12345678
Addresses == {[hi |-> 55552, lo |-> 0], [hi |-> 0, lo |-> 65520]}
Words == {Zero, [hi |-> 4660, lo |-> 22136]}
\* the buffers tried: around the 64 bytes of one transfer
MemoryData == {AmlcBytes(n) : n \in {0, 1, 64, 65, 100, 128}}
MemoryLengths == {0, 1, 4, 63, 64, 65, 100}
MediaSizes == {0, 1, 512, 4096, 4097}
MediaData == {AmlcBytes(n) : n \in {0, 4, 100, 101, 512}}

\* what the device returns when n bytes are asked for: all of them or half
Answers(n) == {AmlcBytes(n), AmlcBytes(n \div 2)}

\* what the device sends when asked for its AMLC request: a request for
\* length bytes at offset in 16 bytes or in 512, another tag, and 8 bytes
AmlcRequests ==
    LET head == AMLC \o <<0, 0, 0, 0>> \o U32LE(16384) \o U32LE(65536)
    IN  {head, head \o [k \in 1..496 |-> 0],
         ADNL_REPLY_OKAY \o [k \in 1..12 |-> 0], Slice(head, 0, 8)}

\* what usb.core.find of the constructor may return: no device, or a device
\* <<address, bus, port>>, 0 standing for a value that is None or 0
FoundDevices ==
    {None} \cup {<<a, b, p>> : a \in {0, 5}, b \in {0, 1}, p \in {0, 2}}

\* the arguments by name of the methods of AmlogicSoC
Signature ==
    [writeSimpleMemory |-> {"address", "data"},
     writeMemory |-> {"address", "data"},
     readSimpleMemory |-> {"address", "length"},
     readMemory |-> {"address", "length"},
     readReg |-> {"address"},
     modifyMemory |-> {"opcode", "address1", "data", "mask", "address2"},
     writeReg |-> {"address", "value"},
     maskRegAND |-> {"address", "mask"},
     maskRegOR |-> {"address", "mask"},
     maskRegNAND |-> {"address", "mask"},
     writeRegBits |-> {"address", "mask", "value"},
     copyReg |-> {"source", "dest"},
     copyRegMaskAND |-> {"source", "dest", "mask"},
     memcpy |-> {"dest", "src", "n"},
     run |-> {"address", "keep_power"},
     writeLargeMemory |-> {"address", "length", "blockLength", "appendZeros"},
     readLargeMemory |-> {"address", "length", "blockLength", "appendZeros"},
     identify |-> {},
     tplCommand |-> {"subcode", "command", "read_status"},
     tplStat |-> {"timeout"},
     sendPassword |-> {"password"},
     nop |-> {},
     getBootAMLC |-> {},
     writeAMLCData |-> {"seq", "amlcOffset", "data"},
     _amlsChecksum |-> {"data"},
     readMedia |-> {"size"},
     writeMedia |-> {"data", "ackLen", "seq", "retryTimes"},
     devRead |-> {"size"},
     bulkCmd |-> {"subcode", "command", "read_status"},
     bulkCmdStat |-> {"timeout"},
     reinit |-> {"devs"}]

\* the methods that take the arguments args
Methods(args) == {m \in DOMAIN Signature : Signature[m] = DOMAIN args}

\* the arguments tried
LegacyArgs ==
    LargeArgs \cup [data : AmlsBuffers] \cup CommandArgs
    \cup [seq : {1}, amlcOffset : {512, 66048}, data : AmlcLengths]
    \cup [address : Addresses, data : MemoryData]
    \cup [address : Addresses, length : MemoryLengths]
    \cup [address : Addresses]
    \cup [opcode : {0, 7}, address1 : Addresses, data : Words, mask : Words,
          address2 : Addresses]
    \cup [address : Addresses, value : Words]
    \cup [address : Addresses, mask : Words]
    \cup [address : Addresses, mask : Words, value : Words]
    \cup [source : Addresses, dest : Addresses]
    \cup [source : Addresses, dest : Addresses, mask : Words]
    \cup [dest : Addresses, src : Addresses, n : Words]
    \cup [address : Addresses, keep_power : BOOLEAN]
    \cup {<<>>}
    \cup [timeout : {1000}]
    \cup [password : {<<>>, <<97, 98, 99>>}]
    \cup [size : MediaSizes]
    \cup [data : MediaData, ackLen : {512}, seq : {0, 1}, retryTimes : {0, 2}]
    \cup [devs : Buses]

\* AmlogicSoC() is about to be constructed and one of its methods called
\* with the arguments u_in
InitLegacy ==
    /\ pc = "__init__"
    /\ reset = FALSE /\ erase_code = 0
    /\ Fresh
    /\ u_out = <<>>
    /\ u_in \in LegacyArgs

\* AmlogicSoC.__init__: the device found is kept with its address, bus and
\* port; then the method is called
__init__ ==
    /\ pc = "__init__"
    /\ \E d \in FoundDevices :
         /\ dev' = d
         /\ IF d = None THEN Fail("ValueError")
            ELSE IF d[1] = 0 \/ d[2] = 0 THEN Fail("ValueError")
            ELSE \E m \in Methods(u_in) : Go(m)
    /\ UNCHANGED <<reset, erase_code, ep, dev_addr_rom_stage, stage,
                   has_secureboot, phases_done, feat, step, bl2_size,
                   pos, loop, io, obs, unit>>

\* the constructor has returned an object
Constructed == pc # "__init__" /\ dev # None /\ dev[1] # 0 /\ dev[2] # 0

\* one call of the method named: r holds what it sends, the error it ends
\* in and, for some, what it returns
Call(method, r) ==
    /\ sent' = r.ops
    /\ IF r.err # NoError THEN Fail(r.err) /\ UNCHANGED u_out
       ELSE /\ Go("returned")
            /\ u_out' = [method |-> method,
                         ret |-> IF "ret" \in DOMAIN r THEN r.ret ELSE None]
    /\ UNCHANGED <<prog, pos, loop, last, nread, rx, obs, u_in>>

writeSimpleMemory_call ==
    /\ pc = "writeSimpleMemory"
    /\ Call("writeSimpleMemory", writeSimpleMemory(u_in.address, u_in.data))

writeMemory_call ==
    /\ pc = "writeMemory"
    /\ Call("writeMemory", writeMemory(u_in.address, u_in.data, Len(u_in.data), 0))

readSimpleMemory_call ==
    /\ pc = "readSimpleMemory"
    /\ \E ret \in Answers(Min(u_in.length, 64)) :
         Call("readSimpleMemory", readSimpleMemory(u_in.address, u_in.length, ret))

readMemory_call ==
    /\ pc = "readMemory"
    /\ \E ret \in Answers(Min(u_in.length, 64)) :
         Call("readMemory", readMemory(u_in.address, u_in.length, ret))

readReg_call ==
    /\ pc = "readReg"
    /\ \E reg \in Answers(4) : Call("readReg", readReg(u_in.address, reg))

modifyMemory_call ==
    /\ pc = "modifyMemory"
    /\ Call("modifyMemory", modifyMemory(u_in.opcode, u_in.address1, u_in.data,
                                         u_in.mask, u_in.address2))

writeReg_call ==
    /\ pc = "writeReg"
    /\ Call("writeReg", writeReg(u_in.address, u_in.value))

maskRegAND_call ==
    /\ pc = "maskRegAND"
    /\ Call("maskRegAND", maskRegAND(u_in.address, u_in.mask))

maskRegOR_call ==
    /\ pc = "maskRegOR"
    /\ Call("maskRegOR", maskRegOR(u_in.address, u_in.mask))

maskRegNAND_call ==
    /\ pc = "maskRegNAND"
    /\ Call("maskRegNAND", maskRegNAND(u_in.address, u_in.mask))

writeRegBits_call ==
    /\ pc = "writeRegBits"
    /\ Call("writeRegBits", writeRegBits(u_in.address, u_in.mask, u_in.value))

copyReg_call ==
    /\ pc = "copyReg"
    /\ Call("copyReg", copyReg(u_in.source, u_in.dest))

copyRegMaskAND_call ==
    /\ pc = "copyRegMaskAND"
    /\ Call("copyRegMaskAND", copyRegMaskAND(u_in.source, u_in.dest, u_in.mask))

memcpy_call ==
    /\ pc = "memcpy"
    /\ Call("memcpy", memcpy(u_in.dest, u_in.src, u_in.n))

run_call ==
    /\ pc = "run"
    /\ Call("run", run(u_in.address, u_in.keep_power))

identify_call ==
    /\ pc = "identify"
    /\ \E ret \in Answers(8) : Call("identify", identify(ret))

tplStat_call ==
    /\ pc = "tplStat"
    /\ \E ret \in Answers(64) : Call("tplStat", tplStat(ret))

sendPassword_call ==
    /\ pc = "sendPassword"
    /\ Call("sendPassword", sendPassword(u_in.password))

nop_call ==
    /\ pc = "nop"
    /\ Call("nop", nop)

getBootAMLC_call ==
    /\ pc = "getBootAMLC"
    /\ \E data \in AmlcRequests : Call("getBootAMLC", getBootAMLC(data))

readMedia_call ==
    /\ pc = "readMedia"
    /\ \E ret \in Answers(u_in.size) : Call("readMedia", readMedia(u_in.size, ret))

writeMedia_call ==
    /\ pc = "writeMedia"
    /\ \E nbytes \in {Len(u_in.data), Len(u_in.data) \div 2} :
         Call("writeMedia", writeMedia(u_in.data, u_in.ackLen, u_in.seq,
                                      u_in.retryTimes, nbytes))

devRead_call ==
    /\ pc = "devRead"
    /\ \E ret \in Answers(u_in.size) : Call("devRead", devRead(u_in.size, ret))

bulkCmdStat_call ==
    /\ pc = "bulkCmdStat"
    /\ \E ret \in {<<115, 117, 99, 99, 101, 115, 115>>, <<102, 97, 105, 108, 101, 100>>} :
         Call("bulkCmdStat", bulkCmdStat(ret))

\* one call of writeLargeMemory
writeLargeMemory_call ==
    /\ pc = "writeLargeMemory"
    /\ LET w == writeLargeMemory(u_in.address, u_in.length,
                                 u_in.blockLength, u_in.appendZeros)
       IN  /\ sent' = w.ops
           /\ IF w.err # NoError THEN Fail(w.err)
              ELSE Go("writeLargeMemory_returned")
    /\ UNCHANGED <<prog, pos, loop, last, nread, rx, obs, unit>>

\* one call of readLargeMemory: u_out is the number of bytes returned
readLargeMemory_call ==
    /\ pc = "readLargeMemory"
    /\ LET r == readLargeMemory(u_in.address, u_in.length,
                                u_in.blockLength, u_in.appendZeros)
       IN  /\ sent' = r.ops
           /\ IF r.err # NoError THEN Fail(r.err) /\ UNCHANGED u_out
              ELSE Go("readLargeMemory_returned") /\ u_out' = r.n
    /\ UNCHANGED <<prog, pos, loop, last, nread, rx, obs, u_in>>

\* one call of _amlsChecksum, and adnl_checksum of the same bytes
_amlsChecksum_call ==
    /\ pc = "_amlsChecksum"
    /\ LET c == _amlsChecksum(u_in.data)
       IN  IF c.err # NoError THEN Fail(c.err) /\ UNCHANGED u_out
           ELSE /\ Go("_amlsChecksum_returned")
                /\ u_out' = [amls |-> c.val, adnl |-> adnl_checksum(Bytes(u_in.data))]
    /\ UNCHANGED <<prog, pos, loop, io, obs, u_in>>

\* writeAMLCData up to its loop: u_out holds offset and transferCount
writeAMLCData_begin ==
    /\ pc = "writeAMLCData"
    /\ u_out' = [offset |-> 0,
                 transferCount |-> BlocksOf(u_in.data, AMLC_MAX_TRANSFERT_LENGTH)]
    /\ Go("writeAMLCData_loop")
    /\ UNCHANGED <<prog, pos, loop, io, obs, u_in>>

\* one round of the loop of writeAMLCData
writeAMLCData_loop ==
    /\ pc = "writeAMLCData_loop"
    /\ u_out.transferCount > 0
    /\ \E ack \in AmlcAcks :
         LET writeLength ==
                 IF u_out.offset + AMLC_MAX_TRANSFERT_LENGTH > u_in.data
                 THEN u_in.data - u_out.offset
                 ELSE AMLC_MAX_TRANSFERT_LENGTH
             w == _writeAMLCData(u_out.offset,
                                 [hdr |-> <<>>, off |-> u_out.offset,
                                  len |-> writeLength], ack)
         IN  /\ sent' = sent \o w.ops
             /\ Read(ack)
             /\ IF w.err # NoError THEN Fail(w.err) /\ UNCHANGED u_out
                ELSE /\ Go("writeAMLCData_loop")
                     /\ u_out' = [offset |-> u_out.offset + writeLength,
                                  transferCount |-> u_out.transferCount - 1]
    /\ UNCHANGED <<prog, pos, loop, last, obs, u_in>>

\* writeAMLCData after its loop: the checksum and the AMLS block, which
\* holds data[16:512] after its header
writeAMLCData_amls ==
    /\ pc = "writeAMLCData_loop"
    /\ u_out.transferCount <= 0
    /\ LET checksum == AmlcChecksums[u_in.data]
       IN  IF checksum.err # NoError
           THEN Fail(checksum.err) /\ UNCHANGED <<sent, nread, rx>>
           ELSE \E ack \in AmlcAcks :
                  LET amls == [hdr |-> pack_AMLS(u_in.seq, checksum.val),
                               off |-> Min(16, u_in.data),
                               len |-> Min(512, u_in.data) - Min(16, u_in.data)]
                      w == _writeAMLCData(u_in.amlcOffset, amls, ack)
                  IN  /\ sent' = sent \o w.ops
                      /\ Read(ack)
                      /\ IF w.err # NoError THEN Fail(w.err)
                         ELSE Go("writeAMLCData_returned")
    /\ UNCHANGED <<prog, pos, loop, last, obs, unit>>

\* one call of tplCommand
tplCommand_call ==
    /\ pc = "tplCommand"
    /\ LET c == tplCommand(u_in.subcode, u_in.command)
       IN  /\ sent' = c.ops
           /\ IF c.err # NoError THEN Fail(c.err) ELSE Go("tplCommand_returned")
    /\ UNCHANGED <<prog, pos, loop, last, nread, rx, obs, unit>>

\* one call of bulkCmd: with read_status the status is read (bulkCmdStat) and
\* returned in u_out
bulkCmd_call ==
    /\ pc = "bulkCmd"
    /\ LET c == bulkCmd(u_in.command)
       IN  /\ sent' = c.ops
           /\ IF c.err # NoError
              THEN Fail(c.err) /\ UNCHANGED <<nread, rx, u_out>>
              ELSE /\ Go("bulkCmd_returned")
                   /\ IF u_in.read_status
                      THEN \E msg \in {<<115, 117, 99, 99, 101, 115, 115>>,
                                       <<102, 97, 105, 108, 101, 100>>} :
                              Read(msg) /\ u_out' = msg
                      ELSE UNCHANGED <<nread, rx, u_out>>
    /\ UNCHANGED <<prog, pos, loop, last, obs, u_in>>

\* one call of reinit
reinit_call ==
    /\ pc = "reinit"
    /\ LET r == reinit(dev, u_in.devs)
       IN  /\ dev' = r.dev
           /\ IF r.err # NoError THEN Fail(r.err) ELSE Go("reinit_returned")
    /\ UNCHANGED <<reset, erase_code, ep, dev_addr_rom_stage, stage,
                   has_secureboot, phases_done, feat, step, bl2_size,
                   pos, loop, io, obs, unit>>

NextLegacy ==
    \/ __init__
    \/ writeSimpleMemory_call
    \/ writeMemory_call
    \/ readSimpleMemory_call
    \/ readMemory_call
    \/ readReg_call
    \/ modifyMemory_call
    \/ writeReg_call
    \/ maskRegAND_call
    \/ maskRegOR_call
    \/ maskRegNAND_call
    \/ writeRegBits_call
    \/ copyReg_call
    \/ copyRegMaskAND_call
    \/ memcpy_call
    \/ run_call
    \/ identify_call
    \/ tplStat_call
    \/ sendPassword_call
    \/ nop_call
    \/ getBootAMLC_call
    \/ readMedia_call
    \/ writeMedia_call
    \/ devRead_call
    \/ bulkCmdStat_call
    \/ reinit_call
    \/ tplCommand_call
    \/ bulkCmd_call
    \/ writeLargeMemory_call
    \/ readLargeMemory_call
    \/ _amlsChecksum_call
    \/ writeAMLCData_begin
    \/ writeAMLCData_loop
    \/ writeAMLCData_amls

SpecLegacy == InitLegacy /\ [][NextLegacy]_vars

\* the control transfers of the log, in order
RECURSIVE Ctrls(_)
Ctrls(ops) ==
    IF ops = <<>> THEN <<>>
    ELSE (IF Head(ops).op = "ctrl" THEN <<Head(ops)>> ELSE <<>>) \o Ctrls(Tail(ops))

\* the bytes of the payload that the bulk writes before entry i carried
RECURSIVE PayloadBefore(_)
PayloadBefore(i) ==
    IF i <= 1 THEN 0
    ELSE PayloadBefore(i - 1)
         + (IF sent[i - 1].op = "write"
            THEN sent[i - 1].count * sent[i - 1].len - sent[i - 1].pad ELSE 0)

\* the call is one of writeLargeMemory or readLargeMemory
LargeCall == DOMAIN u_in = {"address", "length", "blockLength", "appendZeros"}

\* the limit of one sub-transfer, in bytes
LargeLimit == MAX_LARGE_BLOCK_COUNT * u_in.blockLength

\* C23: writeLargeMemory and readLargeMemory split any payload into
\* sub-transfers of at most MAX_LARGE_BLOCK_COUNT * blockLength bytes and
\* so of at most 65535 blocks; the k-th goes to address + offset_k with
\* the bytes of the payload from offset_k on, and the bulk writes carry
\* every byte of the payload once, in order.
C23_LargeChunking ==
    pc \in {"writeLargeMemory_returned", "readLargeMemory_returned"}
       => /\ \A k \in DOMAIN Ctrls(sent) :
               LET c == Ctrls(sent)[k]
               IN  /\ c.wIndex <= MAX_LARGE_BLOCK_COUNT
                   /\ from_bytes(Slice(c.data, 4, 8)) <= LargeLimit
                   /\ from_bytes(Slice(c.data, 0, 4))
                         = u_in.address + (k - 1) * LargeLimit
          /\ Len(Ctrls(sent)) = BlocksOf(u_in.length, LargeLimit)
          /\ pc = "writeLargeMemory_returned"
               => /\ \A i \in DOMAIN sent :
                       (sent[i].op = "write" /\ sent[i].count * sent[i].len > sent[i].pad)
                          => sent[i].src = PayloadBefore(i)
                  /\ PayloadBefore(Len(sent) + 1) = u_in.length

\* C24: for every sub-transfer that _writeLargeMemory or _readLargeMemory
\* accepts, zero-padded ones included, the control transfer has wValue =
\* blockLength and announces a length that is a multiple of blockLength,
\* and the data flows in exactly wIndex = blockCount bulk transfers of
\* exactly blockLength bytes each.
C24_BlockFraming ==
    \A i \in DOMAIN sent :
       (pc \in {"writeLargeMemory_returned", "readLargeMemory_returned", "raised"}
          /\ LargeCall /\ Constructed
          /\ sent[i].op = "ctrl"
          /\ sent[i].bRequest \in {REQ_WR_LARGE_MEM, REQ_RD_LARGE_MEM})
       => /\ sent[i].wValue = u_in.blockLength
          /\ from_bytes(Slice(sent[i].data, 4, 8)) % u_in.blockLength = 0
          /\ from_bytes(Slice(sent[i].data, 4, 8)) = sent[i].wIndex * u_in.blockLength
          /\ i < Len(sent)
          /\ sent[i + 1].op \in {"write", "read"}
          /\ sent[i + 1].count = sent[i].wIndex
          /\ sent[i + 1].len = u_in.blockLength
          /\ (i + 1 < Len(sent) => sent[i + 2].op = "ctrl")

\* C25: writeLargeMemory with a payload whose length is not a multiple of
\* blockLength and appendZeros false ends in ValueError with no control
\* transfer and no bulk write issued, whatever the length of the payload.
C25_MisalignedWriteUntouched ==
    (/\ pc \in {"writeLargeMemory_returned", "raised"}
     /\ LargeCall /\ Constructed
     /\ (sent # <<>> => sent[1].bRequest = REQ_WR_LARGE_MEM)
     /\ ~u_in.appendZeros
     /\ u_in.length % u_in.blockLength # 0)
       => (pc = "raised" /\ exc = "ValueError" /\ sent = <<>>)

\* C26: _amlsChecksum(B) = adnl_checksum(B) for every buffer B, whatever the
\* length of its tail (0 to 3 bytes); no buffer makes _amlsChecksum fail.
C26_AmlsChecksumAgrees ==
    (Constructed /\ pc # "_amlsChecksum" /\ DOMAIN u_in = {"data"})
       => /\ pc = "_amlsChecksum_returned"
          /\ u_out.amls = u_out.adnl

\* the call is one of writeAMLCData
AmlcCall == DOMAIN u_in = {"seq", "amlcOffset", "data"}

\* entry i of the log is the bulk write of an AMLS block
IsAmls(i) == sent[i].op = "write" /\ StartsWith(sent[i].hdr, <<65, 77, 76, 83>>)

\* the number of sub-transfers the payload takes
DataTransfers == BlocksOf(u_in.data, AMLC_MAX_TRANSFERT_LENGTH)

\* C27: writeAMLCData cuts data into sub-transfers of at most 65536 bytes
\* that cover it once, in order; each issues WRITE_AMLC with wValue =
\* offset / 512 and wIndex = writeLength - 1, streams blocks of at most
\* 16384 bytes and has its acknowledgement start with OKAY before anything
\* more is sent; the AMLS block is submitted once, at amlcOffset, after
\* every sub-transfer was acknowledged; any other acknowledgement ends the
\* call with nothing more sent.  It speaks of the call on a constructed
\* object: a constructor that failed has called nothing.
C27_AmlcSequence ==
    /\ []((AmlcCall /\ Constructed) =>
           /\ \A k \in DOMAIN Ctrls(sent) :
                LET c == Ctrls(sent)[k]
                    offset == (k - 1) * AMLC_MAX_TRANSFERT_LENGTH
                IN  /\ c.bRequest = REQ_WRITE_AMLC
                    /\ k <= DataTransfers
                         => /\ c.wValue * AMLC_AMLS_BLOCK_LENGTH = offset
                            /\ c.wIndex = Min(AMLC_MAX_TRANSFERT_LENGTH,
                                              u_in.data - offset) - 1
                    /\ k > DataTransfers
                         => (k = DataTransfers + 1
                             /\ c.wValue = u_in.amlcOffset \div AMLC_AMLS_BLOCK_LENGTH)
           /\ \A i \in DOMAIN sent :
                /\ sent[i].op = "write" => sent[i].len <= AMLC_MAX_BLOCK_LENGTH
                /\ (sent[i].op = "write" /\ ~IsAmls(i))
                     => sent[i].src = PayloadBefore(i)
                /\ (sent[i].op = "write" /\ IsAmls(i))
                     => /\ i = Len(sent) /\ sent[i - 1].op = "ctrl"
                        /\ Len(Ctrls(sent)) = DataTransfers + 1
                        /\ PayloadBefore(i - 1) = u_in.data
           /\ (pc \in {"writeAMLCData_returned", "raised"}
               /\ (nread > 0 => StartsWith(rx, ADNL_REPLY_OKAY)))
                => (sent # <<>> /\ IsAmls(Len(sent))))
    /\ [][(AmlcCall /\ Constructed) =>
           /\ sent' # sent
                => /\ nread = Len(Ctrls(sent)) /\ nread' = nread + 1
                   /\ Len(Ctrls(sent')) = nread'
                   /\ sent # <<>> => StartsWith(rx, ADNL_REPLY_OKAY)
           /\ (nread' # nread /\ ~StartsWith(rx', ADNL_REPLY_OKAY))
                => (pc' = "raised" /\ exc' = "ValueError")]_vars

\* C28: whatever the data, the AMLS block that writeAMLCData submits is 512
\* bytes long, a header of 16 bytes and 496 bytes of data, and its
\* WRITE_AMLC carries wIndex = 511.
C28_AmlsBlockSize ==
    AmlcCall =>
       \A i \in DOMAIN sent :
          (sent[i].op = "write" /\ IsAmls(i))
             => /\ Len(sent[i].hdr) = 16
                /\ sent[i].count = 1 /\ sent[i].len = AMLC_AMLS_BLOCK_LENGTH
                /\ sent[i - 1].wIndex = AMLC_AMLS_BLOCK_LENGTH - 1

\* the call is one of tplCommand or bulkCmd
CommandCall == DOMAIN u_in = {"subcode", "command", "read_status"}

\* once tplCommand or bulkCmd has ended: a command of at most limit
\* characters went out NUL-terminated in one control transfer, and a longer
\* one ended in ValueError with no control transfer
CommandLimit(limit) ==
    (CommandCall /\ Constructed /\ pc \notin {"tplCommand", "bulkCmd"})
       => IF Len(u_in.command) <= limit
          THEN /\ pc \in {"tplCommand_returned", "bulkCmd_returned"}
               /\ Len(sent) = 1 /\ sent[1].op = "ctrl"
               /\ sent[1].bRequest = (IF pc = "tplCommand_returned"
                                      THEN REQ_TPL_CMD ELSE REQ_BULKCMD)
               /\ sent[1].data = u_in.command \o <<0>>
          ELSE pc = "raised" /\ exc = "ValueError" /\ sent = <<>>

\* C29, as stated: tplCommand and bulkCmd accept every command of at most
\* 127 characters and send it NUL-terminated in one control transfer; they
\* reject every longer one before any control transfer.
C29_CommandLimit127 == CommandLimit(127)

\* C29, amended: tplCommand and bulkCmd accept every command of at most 126
\* characters (fewer than 128 with its NUL) and send it NUL-terminated in
\* one control transfer; they reject every command of 127 characters or
\* more with ValueError before any control transfer.
C29_CommandLimit126 == CommandLimit(126)

\* the longest command that tplCommand accepts went out, 127 bytes with its NUL
C29_Witness ==
    /\ CommandCall /\ pc = "tplCommand_returned"
    /\ Len(u_in.command) = 126
    /\ Len(sent) = 1 /\ Len(sent[1].data) = 127 /\ sent[1].data[127] = 0

(***************************************************************************)
(* Finding the device again after it re-enumerated: wait_for_device of the *)
(* ADNL session and reinit of the legacy protocol.                         *)
(***************************************************************************)
\* the device was in hand as prev and has left the bus, which now lists devs
InitReacquire ==
    /\ pc \in {"wait_rom", "reinit"}
    /\ reset = FALSE /\ erase_code = 0
    /\ u_in \in [prev : Devices, devs : Buses]
    /\ u_out = <<>>
    /\ exc = NoError /\ fault = NoError
    /\ dev = u_in.prev /\ ep = None /\ dev_addr_rom_stage = u_in.prev[1]
    /\ stage = "" /\ has_secureboot = 0 /\ phases_done = 0
    /\ feat = 0 /\ step = 1 /\ bl2_size = 0
    /\ pos = [i \in 1..Len(Items) |-> 0]
    /\ item = 0 /\ size = 0 /\ buf = NoBuf /\ buf_offs = 0
    /\ cur_sum = Zero /\ sum_res = Zero /\ it = 1
    /\ sent = <<>> /\ last = NoFrame /\ nread = 0 /\ rx = <<>>
    /\ polled = <<>> /\ sleeps = 0 /\ vseen = <<>>
    /\ ncbw = 0 /\ bl2_sent = 0 /\ bl2_want = 0 /\ ndataout = 0

NextReacquire == wait_for_device \/ reinit_call

SpecReacquire == InitReacquire /\ [][NextReacquire]_vars

\* the port of the device held before is known and a device of the bus is
\* on that bus and port
OnKnownPort ==
    /\ u_in.prev[3] # 0
    /\ \E k \in DOMAIN u_in.devs :
         u_in.devs[k][2] = u_in.prev[2] /\ u_in.devs[k][3] = u_in.prev[3]

\* C30: re-acquisition, by reinit and by wait_for_device alike, ends with
\* the device on the bus and port of the device held before when that port
\* is known and a device is there, whatever other device is listed; it
\* takes another device only when the port is not known or no device is
\* there.
C30_ReacquirePrefersPort ==
    (pc \in {"rom_eps", "reinit_returned"} /\ OnKnownPort)
       => (dev # None /\ dev[2] = u_in.prev[2] /\ dev[3] = u_in.prev[3])

\* the chip-info page has just been answered with OKAY and a payload
PageAnswered ==
    /\ DOMAIN u_in = {"page", "offset", "nbytes"}
    /\ Len(sent) = 2 /\ nread = 2
    /\ sent[2].text = "getvar:getchipinfo-"
    /\ StartsWith(rx, ADNL_REPLY_OKAY)

\* C31: with a payload of L = 64 bytes, get_chipinfo returns exactly the
\* nbytes bytes payload[offset : offset + nbytes] whenever offset + nbytes
\* <= L, and raises the out-of-bound RuntimeError, returning no shorter
\* slice, whenever offset + nbytes > L.
C31_ChipinfoSlice ==
    PageAnswered =>
       LET payload == SubSeq(rx, 5, Len(rx))
       IN  IF u_in.offset + u_in.nbytes <= Len(payload)
           THEN /\ pc = "get_chipinfo_returned"
                /\ Len(u_out) = u_in.nbytes
                /\ u_out = SubSeq(payload, u_in.offset + 1,
                                  u_in.offset + u_in.nbytes)
           ELSE pc = "raised" /\ exc = "RuntimeError"

====
